---- MODULE Spec2Model ----
(***************************************************************************)
(* A model of the publications backend: the Storage Gateway               *)
(* (backend/database.py, class SupabaseManager), the Scholar fetcher      *)
(* (backend/scholar_fetcher.py) and the sync orchestrator in its two      *)
(* copies (backend/bulk_sync.py and the admin route of backend/app.py).   *)
(*                                                                         *)
(* Threads are the elements of DOMAIN pc; every specification fixes the   *)
(* set of threads in its initial predicate.  A thread runs one top-level  *)
(* entry at a time (ctx), which calls gateway operations (op); pc is the  *)
(* thread's position inside the running function.                         *)
(*                                                                         *)
(* Text is a sequence of character codes, so that str(), int(),           *)
(* str.isdigit() and the database's text comparison are computed and not  *)
(* assumed.  An optional value is a sequence of length at most one: NULL  *)
(* (Python's None, SQL NULL) is the empty one and Some(x) holds x.        *)
(***************************************************************************)
EXTENDS Integers, Sequences, FiniteSets, TLC

VARIABLES
    env,              \* what no step changes: app.py's db (FALSE is None), the
                      \* author at the external source, and the threads for
                      \* which the source and the database may fail
    publications,     \* committed rows of table publications, in insertion order
    scholar_profile,  \* committed rows of table scholar_profile
    serial,           \* the id sequences and the clock behind NOW()
    used,             \* connections checked out of the pool (len(pool._used))
    pc,               \* pc[t]: position of thread t
    op,               \* op[t]: the gateway operation t is inside, or "none"
    ctx,              \* ctx[t]: the top-level entry t is running, or "none"
    conn,             \* conn[t]: the local variable conn (FALSE is None)
    tx,               \* tx[t]: uncommitted effects of t's open transaction
    loc,              \* loc[t]: the other local variables of the running functions
    top,              \* top[t]: the local variables of the running top-level entry
    ret,              \* ret[t]: what the last finished call of t returned or raised
    pre,              \* pre[t]: the committed tables when t's last top-level entry
                      \* that writes began
    calls             \* top-level entries that write which may still be started

vars == <<env, publications, scholar_profile, serial, used, pc, op, ctx, conn, tx, loc, top,
          ret, pre, calls>>

NULL == <<>>
Some(x) == <<x>>

----------------------------------------------------------------------------
(* Text: Python's str methods and the database's text order.              *)

IsDigitChar(c) == c >= 48 /\ c <= 57

\* str.isdigit(): non-empty and every character a digit
isdigit(s) == Len(s) > 0 /\ \A k \in 1..Len(s) : IsDigitChar(s[k])

\* int(s) for a string of digits
RECURSIVE int(_)
int(s) == IF Len(s) = 0 THEN 0
          ELSE int(SubSeq(s, 1, Len(s) - 1)) * 10 + (s[Len(s)] - 48)

IsSpaceChar(c) == c \in {9, 10, 11, 12, 13, 28, 29, 30, 31, 32}

\* str.strip(): without the white space at both ends
RECURSIVE strip(_)
strip(s) == IF Len(s) = 0 THEN s
            ELSE IF IsSpaceChar(s[1]) THEN strip(Tail(s))
            ELSE IF IsSpaceChar(s[Len(s)]) THEN strip(SubSeq(s, 1, Len(s) - 1))
            ELSE s

\* the digits of a literal: digits, single underscores between them
IsDigits(s) ==
    /\ Len(s) > 0
    /\ IsDigitChar(s[1]) /\ IsDigitChar(s[Len(s)])
    /\ \A k \in 1..Len(s) : IsDigitChar(s[k]) \/ (s[k] = 95 /\ s[k - 1] # 95)

\* int(s) for any string: Some(n), or NULL where int raises ValueError
ParseInt(s) ==
    LET b == strip(s)
        signed == Len(b) > 0 /\ b[1] \in {43, 45}
        d == IF signed THEN Tail(b) ELSE b
        n == int(SelectSeq(d, IsDigitChar))
    IN IF ~IsDigits(d) THEN NULL
       ELSE IF signed /\ b[1] = 45 THEN Some(0 - n) ELSE Some(n)

\* str(n) / CAST(n AS TEXT) for an integer
RECURSIVE str(_)
str(n) == IF n < 0 THEN <<45>> \o str(0 - n)
          ELSE IF n < 10 THEN <<48 + n>>
          ELSE str(n \div 10) \o <<48 + (n % 10)>>

\* the text 'Unknown'
Unknown == <<85, 110, 107, 110, 111, 119, 110>>

\* a < b in the database's text order (code order; every collation in use
\* puts the digits before the letters)
RECURSIVE TextLess(_, _)
TextLess(a, b) ==
    IF Len(b) = 0 THEN FALSE
    ELSE IF Len(a) = 0 THEN TRUE
    ELSE IF a[1] # b[1] THEN a[1] < b[1]
    ELSE TextLess(Tail(a), Tail(b))

----------------------------------------------------------------------------
(* Program constants and the bounds of the model.                         *)

max_retries == 3     \* ScholarFetcher.__init__: self.max_retries = 3
maxconn == 10        \* ThreadedConnectionPool(maxconn=10)
batch_size == 100    \* bulk_insert_publications: batch_size = 100

MaxBatches == 2      \* direct bulk replaces take lists of up to MaxBatches * batch_size + 1
BulkCalls == 1       \* direct bulk replaces per behaviour
MaxPubs == 3         \* publications the author has at the external source, at most
SyncRuns == 1        \* sync runs per behaviour
MaxRows == 3         \* stored records of the tables that pages are read from, at most
ProfileCalls == 3    \* serial profile upserts per behaviour
Callers == 2         \* concurrent callers of a writing operation
Requests == 2        \* requests that a client sends to the routes, one after another
MaxTokens == 3       \* pieces that an author list is put together from, at most

----------------------------------------------------------------------------
(* Tables, rows and transactions.                                         *)

Threads == DOMAIN pc

Range(s) == {s[k] : k \in 1..Len(s)}

Ids(rows) == {rows[k].id : k \in 1..Len(rows)}

\* a publication without its generated id, as the tests compare record sets
StripId(r) == [title |-> r.title, authors |-> r.authors, venue |-> r.venue,
               year |-> r.year, citations |-> r.citations,
               scholar_url |-> r.scholar_url, pub_number |-> r.pub_number]

Records(rows) == [k \in 1..Len(rows) |-> StripId(rows[k])]

\* the row INSERT INTO publications (...) VALUES v creates; id is the serial column
PubRow(id, v) == [id |-> id, title |-> v.title, authors |-> v.authors, venue |-> v.venue,
                  year |-> v.year, citations |-> v.citations,
                  scholar_url |-> v.scholar_url, pub_number |-> v.pub_number]

NoTx == [pubDel |-> {}, pubIns |-> <<>>, prof |-> NULL]
NoLoc == [none |-> TRUE]
NoRet == [of |-> "none", kind |-> "none", val |-> NULL]
Returned(name, v) == [of |-> name, kind |-> "return", val |-> v]
Raised(name) == [of |-> name, kind |-> "raise", val |-> NULL]

\* UPDATE scholar_profile SET ... WHERE id = w.id, or INSERT INTO scholar_profile
ApplyProfileWrite(rows, w) ==
    IF w = NULL THEN rows
    ELSE IF w[1].kind = "insert" THEN Append(rows, w[1].row)
    ELSE [k \in 1..Len(rows) |-> IF rows[k].id = w[1].row.id THEN w[1].row ELSE rows[k]]

\* conn.commit(): the transaction's deletes and inserts become the committed table
CommittedPublications(rows, t) ==
    SelectSeq(rows, LAMBDA r : r.id \notin tx[t].pubDel) \o tx[t].pubIns

dbVars == <<publications, scholar_profile, serial>>

\* the committed tables, as a caller's test would read them
Snapshot == [publications |-> publications, scholar_profile |-> scholar_profile]

\* the table a committed bulk replace of pubs leaves, ids counting from first
TableOf(pubs, first) == [k \in 1..Len(pubs) |-> PubRow(first + k - 1, pubs[k])]

\* the state after construction: n threads, idle, over the given tables
InitWith(n, e, pubRows, profRows, budget) ==
    /\ env = e
    /\ publications = pubRows
    /\ scholar_profile = profRows
    /\ serial = [pub |-> Len(pubRows) + 1, prof |-> Len(profRows) + 1, clock |-> 1]
    /\ used = 0
    /\ pc = [t \in 1..n |-> "idle"]
    /\ op = [t \in 1..n |-> "none"]
    /\ ctx = [t \in 1..n |-> "none"]
    /\ conn = [t \in 1..n |-> FALSE]
    /\ tx = [t \in 1..n |-> NoTx]
    /\ loc = [t \in 1..n |-> NoLoc]
    /\ top = [t \in 1..n |-> NoLoc]
    /\ ret = [t \in 1..n |-> NoRet]
    /\ pre = [t \in 1..n |-> [publications |-> pubRows, scholar_profile |-> profRows]]
    /\ calls = budget

----------------------------------------------------------------------------
(* The connection pool and the try / except / finally skeleton that every *)
(* gateway operation shares.                                              *)

\* the first statement of each operation after conn = self.get_connection()
FirstStep == [get_publications |-> "count",
              get_all_publications |-> "select",
              get_profile |-> "select",
              update_profile |-> "select",
              bulk_insert_publications |-> "delete",
              get_years_with_counts |-> "select",
              search_publications |-> "count",
              test_db |-> "count"]

\* the environment of a run that uses the gateway alone
GatewayOnly == [db |-> TRUE, faults |-> {1}, scholar |-> <<>>]

\* conn = self.get_connection(): pool.getconn() hands out a connection unless
\* maxconn are checked out (PoolError) or a new connection cannot be opened
get_connection(t) ==
    /\ pc[t] = "getconn"
    /\ \/ /\ used < maxconn
          /\ used' = used + 1
          /\ conn' = [conn EXCEPT ![t] = TRUE]
          /\ pc' = [pc EXCEPT ![t] = FirstStep[op[t]]]
       \/ /\ t \in env.faults \/ used >= maxconn
          /\ pc' = [pc EXCEPT ![t] = "except"]
          /\ UNCHANGED <<used, conn>>
    /\ UNCHANGED <<env, dbVars, op, ctx, tx, loc, top, ret, pre, calls>>

\* what the except clause of each operation hands back
ExceptOutcome(name) ==
    IF name \in {"bulk_insert_publications", "update_profile"}
    THEN Returned(name, FALSE)
    ELSE IF name = "get_years_with_counts" THEN Returned(name, <<>>)
    ELSE Raised(name)

\* the operations whose except clause calls conn.rollback()
RollsBack == {"bulk_insert_publications", "update_profile"}

\* except Exception: (rollback if conn,) log, return False or raise.  The
\* rollback is a call to the database like any other: where it raises (the
\* connection was lost), the exception leaves the operation through finally,
\* and the transaction is gone with its connection
Except(t) ==
    /\ pc[t] = "except"
    /\ tx' = [tx EXCEPT ![t] = NoTx]
    /\ \/ loc' = [loc EXCEPT ![t].out = ExceptOutcome(op[t])]
       \/ /\ conn[t] /\ op[t] \in RollsBack /\ t \in env.faults
          /\ loc' = [loc EXCEPT ![t].out = Raised(op[t])]
    /\ pc' = [pc EXCEPT ![t] = "finally"]
    /\ UNCHANGED <<env, dbVars, used, op, ctx, conn, top, ret, pre, calls>>

\* where the caller goes on after the operation
AfterCall(t) == IF ctx[t] = "direct" THEN "idle" ELSE "after_" \o op[t]

\* Finally with put_connection at the end of the try block and not in a
\* finally clause: an operation that raised, or a writing operation that
\* returned False from its except clause, keeps its connection
FinallyNoRelease(t) ==
    /\ pc[t] = "finally"
    /\ IF /\ conn[t] /\ loc[t].out.kind = "return"
          /\ op[t] \in RollsBack => loc[t].out.val
       THEN /\ used' = used - 1
            /\ conn' = [conn EXCEPT ![t] = FALSE]
       ELSE UNCHANGED <<used, conn>>
    /\ tx' = [tx EXCEPT ![t] = NoTx]
    /\ ret' = [ret EXCEPT ![t] = loc[t].out]
    /\ loc' = [loc EXCEPT ![t] = NoLoc]
    /\ pc' = [pc EXCEPT ![t] = AfterCall(t)]
    /\ op' = [op EXCEPT ![t] = "none"]
    /\ ctx' = [ctx EXCEPT ![t] = IF ctx[t] = "direct" THEN "none" ELSE ctx[t]]
    /\ UNCHANGED <<env, dbVars, top, pre, calls>>

\* finally: if conn: self.put_connection(conn); then the operation is left
Finally(t) ==
    /\ pc[t] = "finally"
    /\ IF conn[t]
       THEN /\ used' = used - 1
            /\ conn' = [conn EXCEPT ![t] = FALSE]
       ELSE UNCHANGED <<used, conn>>
    /\ tx' = [tx EXCEPT ![t] = NoTx]
    /\ ret' = [ret EXCEPT ![t] = loc[t].out]
    /\ loc' = [loc EXCEPT ![t] = NoLoc]
    /\ pc' = [pc EXCEPT ![t] = AfterCall(t)]
    /\ op' = [op EXCEPT ![t] = "none"]
    /\ ctx' = [ctx EXCEPT ![t] = IF ctx[t] = "direct" THEN "none" ELSE ctx[t]]
    /\ UNCHANGED <<env, dbVars, top, pre, calls>>

----------------------------------------------------------------------------
(* SupabaseManager.bulk_insert_publications                               *)

\* line 249: pub.get('year') if pub.get('year') and str(pub.get('year')).isdigit()
\* else None, for a year that is an int or None
BulkYear(y) == IF y # NULL /\ y[1] # 0 /\ isdigit(str(y[1])) THEN y ELSE NULL

\* the tuples of the list values
Values(pubs) ==
    [k \in 1..Len(pubs) |-> [pubs[k] EXCEPT !.year = BulkYear(pubs[k].year)]]

\* the locals of the operation; sizes is history: the length of the batch of
\* each execute_values call so far
BulkLoc(pubs) == [publications |-> pubs, snap |-> {}, values |-> <<>>, i |-> 0,
                  sizes |-> <<>>, out |-> NoRet]

\* cur.execute("DELETE FROM publications"): the statement sees the rows
\* committed when it starts
bulk_delete(t) ==
    /\ op[t] = "bulk_insert_publications" /\ pc[t] = "delete"
    /\ loc' = [loc EXCEPT ![t].snap = Ids(publications)]
    /\ pc' = [pc EXCEPT ![t] = "delete_wait"]
    /\ UNCHANGED <<env, dbVars, used, op, ctx, conn, tx, top, ret, pre, calls>>

\* bulk_delete_done under a lock on the whole table: the DELETE, once it goes
\* on, removes every row committed by then
bulk_delete_done_table_lock(t) ==
    /\ op[t] = "bulk_insert_publications" /\ pc[t] = "delete_wait"
    /\ \/ /\ \A u \in Threads \ {t} : tx[u].pubDel \cap loc[t].snap = {}
          /\ tx' = [tx EXCEPT ![t].pubDel = Ids(publications)]
          /\ loc' = [loc EXCEPT ![t].values = Values(loc[t].publications), ![t].i = 0]
          /\ pc' = [pc EXCEPT ![t] = "batch"]
       \/ /\ t \in env.faults
          /\ pc' = [pc EXCEPT ![t] = "except"]
          /\ UNCHANGED <<tx, loc>>
    /\ UNCHANGED <<env, dbVars, used, op, ctx, conn, top, ret, pre, calls>>

\* the DELETE ends once no other transaction holds one of these rows, and
\* deletes those still there; then the list values is built
bulk_delete_done(t) ==
    /\ op[t] = "bulk_insert_publications" /\ pc[t] = "delete_wait"
    /\ \/ /\ \A u \in Threads \ {t} : tx[u].pubDel \cap loc[t].snap = {}
          /\ tx' = [tx EXCEPT ![t].pubDel = loc[t].snap \cap Ids(publications)]
          /\ loc' = [loc EXCEPT ![t].values = Values(loc[t].publications), ![t].i = 0]
          /\ pc' = [pc EXCEPT ![t] = "batch"]
       \/ /\ t \in env.faults
          /\ pc' = [pc EXCEPT ![t] = "except"]
          /\ UNCHANGED <<tx, loc>>
    /\ UNCHANGED <<env, dbVars, used, op, ctx, conn, top, ret, pre, calls>>

Min(a, b) == IF a < b THEN a ELSE b

\* batch = values[i:i + batch_size]
Batch(values, i) == SubSeq(values, i + 1, Min(i + batch_size, Len(values)))

\* bulk_batch with one execute_values call for the whole list
bulk_batch_whole_list(t) ==
    /\ op[t] = "bulk_insert_publications" /\ pc[t] = "batch"
    /\ loc[t].i < Len(loc[t].values)
    /\ \/ LET batch == loc[t].values
              rows == [k \in 1..Len(batch) |-> PubRow(serial.pub + k - 1, batch[k])]
          IN /\ tx' = [tx EXCEPT ![t].pubIns = @ \o rows]
             /\ serial' = [serial EXCEPT !.pub = @ + Len(batch)]
             /\ loc' = [loc EXCEPT ![t].i = Len(batch),
                                   ![t].sizes = Append(@, Len(batch))]
             /\ UNCHANGED pc
       \/ /\ t \in env.faults
          /\ pc' = [pc EXCEPT ![t] = "except"]
          /\ UNCHANGED <<tx, serial, loc>>
    /\ UNCHANGED <<env, publications, scholar_profile, used, op, ctx, conn, top, ret, pre, calls>>

\* one turn of for i in range(0, len(values), batch_size): execute_values(...)
bulk_batch(t) ==
    /\ op[t] = "bulk_insert_publications" /\ pc[t] = "batch"
    /\ loc[t].i < Len(loc[t].values)
    /\ \/ LET batch == Batch(loc[t].values, loc[t].i)
              rows == [k \in 1..Len(batch) |-> PubRow(serial.pub + k - 1, batch[k])]
          IN /\ tx' = [tx EXCEPT ![t].pubIns = @ \o rows]
             /\ serial' = [serial EXCEPT !.pub = @ + Len(batch)]
             /\ loc' = [loc EXCEPT ![t].i = @ + batch_size,
                                   ![t].sizes = Append(@, Len(batch))]
             /\ UNCHANGED pc
       \/ /\ t \in env.faults
          /\ pc' = [pc EXCEPT ![t] = "except"]
          /\ UNCHANGED <<tx, serial, loc>>
    /\ UNCHANGED <<env, publications, scholar_profile, used, op, ctx, conn, top, ret, pre, calls>>

\* conn.commit(); return True
bulk_commit(t) ==
    /\ op[t] = "bulk_insert_publications" /\ pc[t] = "batch"
    /\ loc[t].i >= Len(loc[t].values)
    /\ \/ /\ publications' = CommittedPublications(publications, t)
          /\ tx' = [tx EXCEPT ![t] = NoTx]
          /\ loc' = [loc EXCEPT ![t].out = Returned(op[t], TRUE)]
          /\ pc' = [pc EXCEPT ![t] = "finally"]
       \/ /\ t \in env.faults
          /\ pc' = [pc EXCEPT ![t] = "except"]
          /\ UNCHANGED <<publications, tx, loc>>
    /\ UNCHANGED <<env, scholar_profile, serial, used, op, ctx, conn, top, ret, pre, calls>>

bulk_insert_publications(t) ==
    \/ bulk_delete(t)
    \/ bulk_delete_done(t)
    \/ bulk_batch(t)
    \/ bulk_commit(t)

\* a caller outside the model calls db.bulk_insert_publications(pubs)
CallBulkInsert(t, pubs) ==
    /\ pc[t] = "idle" /\ calls > 0
    /\ calls' = calls - 1
    /\ ctx' = [ctx EXCEPT ![t] = "direct"]
    /\ op' = [op EXCEPT ![t] = "bulk_insert_publications"]
    /\ pc' = [pc EXCEPT ![t] = "getconn"]
    /\ loc' = [loc EXCEPT ![t] = BulkLoc(pubs)]
    /\ top' = [top EXCEPT ![t] = [publications |-> pubs]]
    /\ ret' = [ret EXCEPT ![t] = NoRet]
    /\ pre' = [pre EXCEPT ![t] = Snapshot]
    /\ UNCHANGED <<env, dbVars, used, conn, tx>>

----------------------------------------------------------------------------
(* SupabaseManager.update_profile                                         *)

\* the row an UPDATE or INSERT of profile_data writes; last_updated is NOW()
ProfileRow(id, d, now) ==
    [id |-> id, name |-> d.name, affiliation |-> d.affiliation,
     scholar_url |-> d.scholar_url, total_citations |-> d.total_citations,
     h_index |-> d.h_index, i10_index |-> d.i10_index,
     total_publications |-> d.total_publications, last_updated |-> now]

ProfileLoc(d) == [profile_data |-> d, existing |-> NULL, out |-> NoRet]

\* what SELECT id FROM scholar_profile LIMIT 1 may fetch: no row, or any one
\* row (the query states no order)
ExistingChoices ==
    IF Len(scholar_profile) = 0 THEN {NULL}
    ELSE {Some(scholar_profile[k].id) : k \in 1..Len(scholar_profile)}

\* profile_select that never finds the row (a WHERE clause no row satisfies)
profile_select_blind(t) ==
    /\ op[t] = "update_profile" /\ pc[t] = "select"
    /\ \/ /\ loc' = [loc EXCEPT ![t].existing = NULL]
          /\ pc' = [pc EXCEPT ![t] = "write"]
       \/ /\ t \in env.faults
          /\ pc' = [pc EXCEPT ![t] = "except"]
          /\ UNCHANGED loc
    /\ UNCHANGED <<env, dbVars, used, op, ctx, conn, tx, top, ret, pre, calls>>

\* cur.execute("SELECT id FROM scholar_profile LIMIT 1"); existing = cur.fetchone()
profile_select(t) ==
    /\ op[t] = "update_profile" /\ pc[t] = "select"
    /\ \/ \E e \in ExistingChoices :
             /\ loc' = [loc EXCEPT ![t].existing = e]
             /\ pc' = [pc EXCEPT ![t] = "write"]
       \/ /\ t \in env.faults
          /\ pc' = [pc EXCEPT ![t] = "except"]
          /\ UNCHANGED loc
    /\ UNCHANGED <<env, dbVars, used, op, ctx, conn, tx, top, ret, pre, calls>>

\* profile_write without the UPDATE branch: every call inserts
profile_write_insert_only(t) ==
    /\ op[t] = "update_profile" /\ pc[t] = "write"
    /\ \/ /\ tx' = [tx EXCEPT ![t].prof =
                       Some([kind |-> "insert",
                             row |-> ProfileRow(serial.prof, loc[t].profile_data,
                                                serial.clock)])]
          /\ serial' = [serial EXCEPT !.prof = @ + 1, !.clock = @ + 1]
          /\ pc' = [pc EXCEPT ![t] = "commit"]
       \/ /\ t \in env.faults
          /\ pc' = [pc EXCEPT ![t] = "except"]
          /\ UNCHANGED <<tx, serial>>
    /\ UNCHANGED <<env, publications, scholar_profile, used, op, ctx, conn, loc, top, ret,
                   pre, calls>>

\* if existing: UPDATE ... WHERE id = existing['id'], else: INSERT; an UPDATE
\* waits while another transaction has written the row
profile_write(t) ==
    /\ op[t] = "update_profile" /\ pc[t] = "write"
    /\ \/ /\ loc[t].existing # NULL
          /\ \A u \in Threads \ {t} :
                tx[u].prof # NULL => tx[u].prof[1].row.id # loc[t].existing[1]
          /\ tx' = [tx EXCEPT ![t].prof =
                       Some([kind |-> "update",
                             row |-> ProfileRow(loc[t].existing[1], loc[t].profile_data,
                                                serial.clock)])]
          /\ serial' = [serial EXCEPT !.clock = @ + 1]
          /\ pc' = [pc EXCEPT ![t] = "commit"]
       \/ /\ loc[t].existing = NULL
          /\ tx' = [tx EXCEPT ![t].prof =
                       Some([kind |-> "insert",
                             row |-> ProfileRow(serial.prof, loc[t].profile_data,
                                                serial.clock)])]
          /\ serial' = [serial EXCEPT !.prof = @ + 1, !.clock = @ + 1]
          /\ pc' = [pc EXCEPT ![t] = "commit"]
       \/ /\ t \in env.faults
          /\ pc' = [pc EXCEPT ![t] = "except"]
          /\ UNCHANGED <<tx, serial>>
    /\ UNCHANGED <<env, publications, scholar_profile, used, op, ctx, conn, loc, top, ret,
                   pre, calls>>

\* conn.commit(); return True
profile_commit(t) ==
    /\ op[t] = "update_profile" /\ pc[t] = "commit"
    /\ \/ /\ scholar_profile' = ApplyProfileWrite(scholar_profile, tx[t].prof)
          /\ tx' = [tx EXCEPT ![t] = NoTx]
          /\ loc' = [loc EXCEPT ![t].out = Returned(op[t], TRUE)]
          /\ pc' = [pc EXCEPT ![t] = "finally"]
       \/ /\ t \in env.faults
          /\ pc' = [pc EXCEPT ![t] = "except"]
          /\ UNCHANGED <<scholar_profile, tx, loc>>
    /\ UNCHANGED <<env, publications, serial, used, op, ctx, conn, top, ret, pre, calls>>

update_profile(t) ==
    \/ profile_select(t)
    \/ profile_write(t)
    \/ profile_commit(t)

----------------------------------------------------------------------------
(* ScholarFetcher._highlight_author_name: re.sub of three literal         *)
(* patterns between word boundaries, ignoring case.                       *)

IsWordChar(c) == \/ IsDigitChar(c)
                 \/ c >= 65 /\ c <= 90
                 \/ c >= 97 /\ c <= 122
                 \/ c = 95

Lower(c) == IF c >= 65 /\ c <= 90 THEN c + 32 ELSE c

\* \b between s[k] and s[k + 1] (k = 0 is the start, k = Len(s) the end)
WordBoundary(s, k) ==
    (k >= 1 /\ IsWordChar(s[k])) # (k + 1 <= Len(s) /\ IsWordChar(s[k + 1]))

\* the pattern \b<lit>\b matches s at position k
MatchAt(lit, s, k) ==
    /\ k + Len(lit) - 1 <= Len(s)
    /\ \A j \in 1..Len(lit) : Lower(s[k + j - 1]) = Lower(lit[j])
    /\ WordBoundary(s, k - 1)
    /\ WordBoundary(s, k + Len(lit) - 1)

StrongOpen == <<60, 115, 116, 114, 111, 110, 103, 62>>          \* <strong>
StrongClose == <<60, 47, 115, 116, 114, 111, 110, 103, 62>>     \* </strong>

\* re.sub(pattern, '<strong>\g<0></strong>', s, flags=re.IGNORECASE) from k on
RECURSIVE SubFrom(_, _, _)
SubFrom(lit, s, k) ==
    IF k > Len(s) THEN <<>>
    ELSE IF MatchAt(lit, s, k)
    THEN StrongOpen \o SubSeq(s, k, k + Len(lit) - 1) \o StrongClose
         \o SubFrom(lit, s, k + Len(lit))
    ELSE <<s[k]>> \o SubFrom(lit, s, k + 1)

PatADixit == <<65, 32, 68, 105, 120, 105, 116>>                            \* A Dixit
PatAbhishekDixit == <<65, 98, 104, 105, 115, 104, 101, 107, 32, 68, 105, 120, 105, 116>>
PatADotDixit == <<65, 46, 32, 68, 105, 120, 105, 116>>                     \* A. Dixit

\* _highlight_author_name without the pattern for 'A. Dixit'
_highlight_author_name_two_patterns(authors) ==
    IF authors = <<>> THEN authors
    ELSE SubFrom(PatAbhishekDixit, SubFrom(PatADixit, authors, 1), 1)

_highlight_author_name(authors) ==
    IF authors = <<>> THEN authors
    ELSE SubFrom(PatADotDixit,
                 SubFrom(PatAbhishekDixit, SubFrom(PatADixit, authors, 1), 1), 1)

----------------------------------------------------------------------------
(* ScholarFetcher._process_all_publications and _format_scholar_data      *)

\* the record _process_all_publications appends for item number i + 1;
\* an absent pub_year reads as 'Unknown'
ProcessedPub(item, i) ==
    [title |-> item.bib.title,
     authors |-> _highlight_author_name(item.bib.author),
     venue |-> item.bib.venue,
     year |-> IF item.bib.pub_year = NULL THEN Unknown ELSE item.bib.pub_year[1],
     citations |-> item.num_citations,
     scholar_url |-> item.pub_url,
     pub_number |-> i + 1]

\* key=lambda x: int(x['year']) if x['year'].isdigit() else 0
SortKey(x) == IF isdigit(x.year) THEN int(x.year) ELSE 0

\* list.sort(key=..., reverse=True) is stable: x goes after every element
\* whose key is not smaller
InsertDesc(sorted, x) ==
    LET n == Cardinality({k \in 1..Len(sorted) : SortKey(sorted[k]) >= SortKey(x)})
    IN SubSeq(sorted, 1, n) \o <<x>> \o SubSeq(sorted, n + 1, Len(sorted))

RECURSIVE SortByYearDesc(_)
SortByYearDesc(pubs) ==
    IF Len(pubs) = 0 THEN <<>>
    ELSE InsertDesc(SortByYearDesc(SubSeq(pubs, 1, Len(pubs) - 1)), pubs[Len(pubs)])

\* publications_by_year: a dict, kept as its items in insertion order
RECURSIVE GroupByYear(_)
GroupByYear(pubs) ==
    IF Len(pubs) = 0 THEN <<>>
    ELSE LET groups == GroupByYear(SubSeq(pubs, 1, Len(pubs) - 1))
             x == pubs[Len(pubs)]
         IN IF \E g \in 1..Len(groups) : groups[g].year = x.year
            THEN [g \in 1..Len(groups) |->
                     IF groups[g].year = x.year
                     THEN [groups[g] EXCEPT !.pubs = Append(@, x)]
                     ELSE groups[g]]
            ELSE Append(groups, [year |-> x.year, pubs |-> <<x>>])

ScholarUrl == "https://scholar.google.co.in/citations?user=CjJ84BwAAAAJ&hl=en"

\* _format_scholar_data grouping with publications_by_year[year] = [pub]:
\* a year keeps its last record alone
_format_scholar_data_last_of_year(author_filled, pubs) ==
    LET sorted == SortByYearDesc(pubs)
        groups == GroupByYear(sorted)
    IN [profile |-> [name |-> author_filled.name,
                     affiliation |-> author_filled.affiliation,
                     scholar_url |-> ScholarUrl,
                     total_citations |-> author_filled.citedby,
                     h_index |-> author_filled.hindex,
                     i10_index |-> author_filled.i10index],
        publications_by_year |->
            [g \in 1..Len(groups) |->
                [groups[g] EXCEPT !.pubs = <<groups[g].pubs[Len(groups[g].pubs)]>>]],
        total_publications |-> Len(sorted)]

_format_scholar_data(author_filled, pubs) ==
    LET sorted == SortByYearDesc(pubs)
    IN [profile |-> [name |-> author_filled.name,
                     affiliation |-> author_filled.affiliation,
                     scholar_url |-> ScholarUrl,
                     total_citations |-> author_filled.citedby,
                     h_index |-> author_filled.hindex,
                     i10_index |-> author_filled.i10index],
        publications_by_year |-> GroupByYear(sorted),
        total_publications |-> Len(sorted)]

----------------------------------------------------------------------------
(* ScholarFetcher.fetch_scholar_data, as called by a sync run.  The       *)
(* fetcher's locals live in top[t]; started, raised and skipped are       *)
(* history: the attempts begun, the attempts that raised and the items    *)
(* whose detail fetch raised in the current attempt.  bulk_result and     *)
(* profile_result are history too: how the run's two gateway calls ended; *)
(* issued lists the gateway calls of the run, each with its argument.     *)
(*                                                                         *)
(* Time is counted in milliseconds of time.sleep.  delay and backoff_delay *)
(* are the fetcher's locals; delays and backoffs list the sleeps done at   *)
(* the start of the attempts and after the failed ones; last is the last  *)
(* call to the external source and since the time slept after it.         *)

Seconds(n) == n * 1000

base_delay == Seconds(2)     \* ScholarFetcher.__init__: self.base_delay = 2.0

\* time.time() % 1: a fraction of a second, in milliseconds (the least and
\* the greatest)
Jitters == {0, 999}

SyncTop == [attempt |-> 0, started |-> 0, raised |-> 0,
            i |-> 0, processed_pubs |-> <<>>, skipped |-> {},
            scholar_data |-> NULL, all_publications |-> <<>>,
            success |-> NULL, bulk_result |-> NoRet, profile_result |-> NoRet,
            issued |-> <<>>,
            delay |-> 0, backoff_delay |-> 0, delays |-> <<>>, backoffs |-> <<>>,
            last |-> "none", since |-> 0]

Syncing(t) == ctx[t] \in {"script", "endpoint"} /\ op[t] = "none"

\* fetch_loop sleeping base_delay before every attempt
fetch_loop_flat_delay(t) ==
    /\ Syncing(t) /\ pc[t] = "f_loop"
    /\ IF top[t].attempt < max_retries
       THEN /\ top' = [top EXCEPT ![t].attempt = @ + 1, ![t].started = @ + 1,
                                  ![t].delay = base_delay,
                                  ![t].delays = Append(@, base_delay),
                                  ![t].since = @ + base_delay]
            /\ pc' = [pc EXCEPT ![t] = "f_search"]
       ELSE /\ top' = [top EXCEPT ![t].scholar_data = NULL]
            /\ pc' = [pc EXCEPT ![t] = "s_check"]
    /\ UNCHANGED <<env, dbVars, used, op, ctx, conn, tx, loc, ret, pre, calls>>

\* for attempt in range(1, self.max_retries + 1): delay = self.base_delay +
\* (attempt - 1) * 1.0; time.sleep(delay); after the last turn the loop is
\* left and line 57 returns None
fetch_loop(t) ==
    /\ Syncing(t) /\ pc[t] = "f_loop"
    /\ IF top[t].attempt < max_retries
       THEN LET delay == base_delay + Seconds(top[t].attempt)
            IN /\ top' = [top EXCEPT ![t].attempt = @ + 1, ![t].started = @ + 1,
                                     ![t].delay = delay,
                                     ![t].delays = Append(@, delay),
                                     ![t].since = @ + delay]
               /\ pc' = [pc EXCEPT ![t] = "f_search"]
       ELSE /\ top' = [top EXCEPT ![t].scholar_data = NULL]
            /\ pc' = [pc EXCEPT ![t] = "s_check"]
    /\ UNCHANGED <<env, dbVars, used, op, ctx, conn, tx, loc, ret, pre, calls>>

\* author = scholarly.search_author_id(scholar_id)
fetch_search(t) ==
    /\ Syncing(t) /\ pc[t] = "f_search"
    /\ top' = [top EXCEPT ![t].last = "search_author_id", ![t].since = 0]
    /\ \/ pc' = [pc EXCEPT ![t] = "f_fill"]
       \/ /\ t \in env.faults
          /\ pc' = [pc EXCEPT ![t] = "f_except"]
    /\ UNCHANGED <<env, dbVars, used, op, ctx, conn, tx, loc, ret, pre, calls>>

\* author_filled = scholarly.fill(author); then _process_all_publications
\* starts with processed_pubs = []
fetch_fill(t) ==
    /\ Syncing(t) /\ pc[t] = "f_fill"
    /\ \/ /\ top' = [top EXCEPT ![t].i = 0, ![t].processed_pubs = <<>>,
                                ![t].skipped = {},
                                ![t].last = "fill_author", ![t].since = 0]
          /\ pc' = [pc EXCEPT ![t] = "f_item"]
       \/ /\ t \in env.faults
          /\ top' = [top EXCEPT ![t].last = "fill_author", ![t].since = 0]
          /\ pc' = [pc EXCEPT ![t] = "f_except"]
    /\ UNCHANGED <<env, dbVars, used, op, ctx, conn, tx, loc, ret, pre, calls>>

\* fetch_item with break in place of continue: a failing item ends the loop
fetch_item_break(t) ==
    /\ Syncing(t) /\ pc[t] = "f_item"
    /\ top[t].i < Len(env.scholar.publications)
    /\ \/ \E jitter \in Jitters :
             top' = [top EXCEPT
                       ![t].processed_pubs =
                           Append(@, ProcessedPub(env.scholar.publications[top[t].i + 1],
                                                  top[t].i)),
                       ![t].i = @ + 1,
                       ![t].last = "fill_pub", ![t].since = 2500 + jitter]
       \/ /\ t \in env.faults
          /\ top' = [top EXCEPT ![t].skipped = @ \cup {top[t].i + 1},
                                ![t].i = Len(env.scholar.publications),
                                ![t].last = "fill_pub", ![t].since = 0]
    /\ UNCHANGED <<env, dbVars, used, pc, op, ctx, conn, tx, loc, ret, pre, calls>>

\* fetch_item without the try around the turn: a detail fetch that raises
\* ends the attempt
fetch_item_raises(t) ==
    /\ Syncing(t) /\ pc[t] = "f_item"
    /\ top[t].i < Len(env.scholar.publications)
    /\ \/ /\ \E jitter \in Jitters :
                top' = [top EXCEPT
                          ![t].processed_pubs =
                              Append(@, ProcessedPub(env.scholar.publications[top[t].i + 1],
                                                     top[t].i)),
                          ![t].i = @ + 1,
                          ![t].last = "fill_pub", ![t].since = 2500 + jitter]
          /\ UNCHANGED pc
       \/ /\ t \in env.faults
          /\ top' = [top EXCEPT ![t].skipped = @ \cup {top[t].i + 1},
                                ![t].last = "fill_pub", ![t].since = 0]
          /\ pc' = [pc EXCEPT ![t] = "f_except"]
    /\ UNCHANGED <<env, dbVars, used, op, ctx, conn, tx, loc, ret, pre, calls>>

\* one turn of for i, pub in enumerate(publications): scholarly.fill(pub)
\* gives the record, which is appended, and time.sleep(2.5 + (time.time() % 1))
\* follows; or it raises, and the except clause goes on to the next item
\* (continue) without the sleep, which is the last statement of the try block
fetch_item(t) ==
    /\ Syncing(t) /\ pc[t] = "f_item"
    /\ top[t].i < Len(env.scholar.publications)
    /\ \/ \E jitter \in Jitters :
             top' = [top EXCEPT
                       ![t].processed_pubs =
                           Append(@, ProcessedPub(env.scholar.publications[top[t].i + 1],
                                                  top[t].i)),
                       ![t].i = @ + 1,
                       ![t].last = "fill_pub", ![t].since = 2500 + jitter]
       \/ /\ t \in env.faults
          /\ top' = [top EXCEPT ![t].skipped = @ \cup {top[t].i + 1}, ![t].i = @ + 1,
                                ![t].last = "fill_pub", ![t].since = 0]
    /\ UNCHANGED <<env, dbVars, used, pc, op, ctx, conn, tx, loc, ret, pre, calls>>

\* fetch_format with the return left out: the retry loop goes on after a success
fetch_format_no_return(t) ==
    /\ Syncing(t) /\ pc[t] = "f_item"
    /\ top[t].i >= Len(env.scholar.publications)
    /\ top' = [top EXCEPT ![t].scholar_data =
                  Some(_format_scholar_data(env.scholar, top[t].processed_pubs))]
    /\ pc' = [pc EXCEPT ![t] = IF top[t].attempt < max_retries THEN "f_loop" ELSE "s_check"]
    /\ UNCHANGED <<env, dbVars, used, op, ctx, conn, tx, loc, ret, pre, calls>>

\* return processed_pubs; result = self._format_scholar_data(...); return result
fetch_format(t) ==
    /\ Syncing(t) /\ pc[t] = "f_item"
    /\ top[t].i >= Len(env.scholar.publications)
    /\ top' = [top EXCEPT ![t].scholar_data =
                  Some(_format_scholar_data(env.scholar, top[t].processed_pubs))]
    /\ pc' = [pc EXCEPT ![t] = "s_check"]
    /\ UNCHANGED <<env, dbVars, used, op, ctx, conn, tx, loc, ret, pre, calls>>

\* fetch_except giving up one attempt early (attempt == self.max_retries - 1)
fetch_except_early(t) ==
    /\ Syncing(t) /\ pc[t] = "f_except"
    /\ IF top[t].attempt >= max_retries - 1
       THEN /\ top' = [top EXCEPT ![t].raised = @ + 1, ![t].scholar_data = NULL]
            /\ pc' = [pc EXCEPT ![t] = "s_check"]
       ELSE /\ \E jitter \in Jitters :
                  LET backoff_delay == Seconds(2 ^ top[t].attempt) + jitter
                  IN top' = [top EXCEPT ![t].raised = @ + 1,
                                        ![t].backoff_delay = backoff_delay,
                                        ![t].backoffs = Append(@, backoff_delay),
                                        ![t].since = @ + backoff_delay]
            /\ pc' = [pc EXCEPT ![t] = "f_loop"]
    /\ UNCHANGED <<env, dbVars, used, op, ctx, conn, tx, loc, ret, pre, calls>>

\* fetch_except with the backoff ahead of the test of the ceiling: the
\* fetcher sleeps after the last attempt too
fetch_except_backoff_first(t) ==
    /\ Syncing(t) /\ pc[t] = "f_except"
    /\ \E jitter \in Jitters :
          LET backoff_delay == Seconds(2 ^ top[t].attempt) + jitter
          IN top' = [top EXCEPT ![t].raised = @ + 1,
                                ![t].backoff_delay = backoff_delay,
                                ![t].backoffs = Append(@, backoff_delay),
                                ![t].since = @ + backoff_delay,
                                ![t].scholar_data = NULL]
    /\ pc' = [pc EXCEPT ![t] = IF top[t].attempt = max_retries THEN "s_check"
                               ELSE "f_loop"]
    /\ UNCHANGED <<env, dbVars, used, op, ctx, conn, tx, loc, ret, pre, calls>>

\* except Exception: if attempt == self.max_retries: return None; otherwise
\* backoff_delay = (2 ** attempt) + time.time() % 1; time.sleep(backoff_delay)
\* and the loop goes on
fetch_except(t) ==
    /\ Syncing(t) /\ pc[t] = "f_except"
    /\ IF top[t].attempt = max_retries
       THEN /\ top' = [top EXCEPT ![t].raised = @ + 1, ![t].scholar_data = NULL]
            /\ pc' = [pc EXCEPT ![t] = "s_check"]
       ELSE /\ \E jitter \in Jitters :
                  LET backoff_delay == Seconds(2 ^ top[t].attempt) + jitter
                  IN top' = [top EXCEPT ![t].raised = @ + 1,
                                        ![t].backoff_delay = backoff_delay,
                                        ![t].backoffs = Append(@, backoff_delay),
                                        ![t].since = @ + backoff_delay]
            /\ pc' = [pc EXCEPT ![t] = "f_loop"]
    /\ UNCHANGED <<env, dbVars, used, op, ctx, conn, tx, loc, ret, pre, calls>>

fetch_scholar_data(t) ==
    \/ fetch_loop(t)
    \/ fetch_search(t)
    \/ fetch_fill(t)
    \/ fetch_item(t)
    \/ fetch_format(t)
    \/ fetch_except(t)

----------------------------------------------------------------------------
(* The sync run: bulk_sync.sync_all_publications ("script") and the admin *)
(* route app.sync_scholar_data ("endpoint").                              *)

EntryName == [script |-> "sync_all_publications", endpoint |-> "sync_scholar_data"]

\* what the run reports: the script's boolean, the route's status and body
Report(entry, success, n) ==
    IF entry = "script" THEN Returned(EntryName[entry], success)
    ELSE IF success
    THEN Returned(EntryName[entry], [status |-> 200, total_publications |-> n])
    ELSE Returned(EntryName[entry], [status |-> 500, total_publications |-> 0])

ReportsSuccess(r) ==
    \/ r.of = "sync_all_publications" /\ r.val = TRUE
    \/ r.of = "sync_scholar_data" /\ r.val.status = 200

ReportsFailure(r) ==
    \/ r.of = "sync_all_publications" /\ r.val = FALSE
    \/ r.of = "sync_scholar_data" /\ r.val.status = 500

\* the run ends and says success or failure
SyncReturn(t, success) ==
    /\ ret' = [ret EXCEPT ![t] = Report(ctx[t], success, Len(top[t].all_publications))]
    /\ pc' = [pc EXCEPT ![t] = "idle"]
    /\ ctx' = [ctx EXCEPT ![t] = "none"]

\* the operator starts the script, or POSTs /api/admin/sync-scholar
CallSync(t, entry) ==
    /\ pc[t] = "idle" /\ calls > 0
    /\ calls' = calls - 1
    /\ ctx' = [ctx EXCEPT ![t] = entry]
    /\ pc' = [pc EXCEPT ![t] = "start"]
    /\ top' = [top EXCEPT ![t] = SyncTop]
    /\ ret' = [ret EXCEPT ![t] = NoRet]
    /\ pre' = [pre EXCEPT ![t] = Snapshot]
    /\ UNCHANGED <<env, dbVars, used, op, conn, tx, loc>>

\* script: db = SupabaseManager() raises without a database and the outer
\* except returns False; route: if not db: return 500
sync_start(t) ==
    /\ Syncing(t) /\ pc[t] = "start"
    /\ IF env.db
       THEN /\ pc' = [pc EXCEPT ![t] = "f_loop"]
            /\ UNCHANGED <<ctx, ret>>
       ELSE SyncReturn(t, FALSE)
    /\ UNCHANGED <<env, dbVars, used, op, conn, tx, loc, top, pre, calls>>

\* for year, pubs in publications_by_year.items(): for pub in pubs:
\*     pub['year'] = int(year) if year.isdigit() else None
RECURSIVE Flatten(_)
Flatten(groups) ==
    IF Len(groups) = 0 THEN <<>>
    ELSE LET g == groups[Len(groups)]
         IN Flatten(SubSeq(groups, 1, Len(groups) - 1)) \o
            [k \in 1..Len(g.pubs) |->
                [g.pubs[k] EXCEPT !.year = IF isdigit(g.year) THEN Some(int(g.year))
                                           ELSE NULL]]

\* sync_check taking a missing result for an empty one
sync_check_none_as_empty(t) ==
    /\ Syncing(t) /\ pc[t] = "s_check"
    /\ LET all == IF top[t].scholar_data = NULL THEN <<>>
                  ELSE Flatten(top[t].scholar_data[1].publications_by_year)
       IN /\ top' = [top EXCEPT ![t] = [SyncTop EXCEPT
                                          !.scholar_data = top[t].scholar_data,
                                          !.all_publications = all,
                                          !.issued = <<[name |-> "bulk_insert_publications",
                                                        arg |-> Some(all)]>>]]
          /\ op' = [op EXCEPT ![t] = "bulk_insert_publications"]
          /\ loc' = [loc EXCEPT ![t] = BulkLoc(all)]
          /\ pc' = [pc EXCEPT ![t] = "getconn"]
          /\ UNCHANGED <<ctx, ret>>
    /\ UNCHANGED <<env, dbVars, used, conn, tx, pre, calls>>

\* sync_check taking a result without records for a missing one
sync_check_empty_as_none(t) ==
    /\ Syncing(t) /\ pc[t] = "s_check"
    /\ IF top[t].scholar_data = NULL \/ top[t].processed_pubs = <<>>
       THEN /\ SyncReturn(t, FALSE)
            /\ UNCHANGED <<op, loc, top>>
       ELSE LET all == Flatten(top[t].scholar_data[1].publications_by_year)
            IN /\ top' = [top EXCEPT ![t] = [SyncTop EXCEPT
                                               !.scholar_data = top[t].scholar_data,
                                               !.all_publications = all,
                                               !.issued =
                                                   <<[name |-> "bulk_insert_publications",
                                                      arg |-> Some(all)]>>]]
               /\ op' = [op EXCEPT ![t] = "bulk_insert_publications"]
               /\ loc' = [loc EXCEPT ![t] = BulkLoc(all)]
               /\ pc' = [pc EXCEPT ![t] = "getconn"]
               /\ UNCHANGED <<ctx, ret>>
    /\ UNCHANGED <<env, dbVars, used, conn, tx, pre, calls>>

\* if not scholar_data: report failure; else flatten and call
\* db.bulk_insert_publications(all_publications); the fetcher's locals, kept
\* until here for the caller to see, are gone
sync_check(t) ==
    /\ Syncing(t) /\ pc[t] = "s_check"
    /\ IF top[t].scholar_data = NULL
       THEN /\ SyncReturn(t, FALSE)
            /\ UNCHANGED <<op, loc, top>>
       ELSE LET all == Flatten(top[t].scholar_data[1].publications_by_year)
            IN /\ top' = [top EXCEPT ![t] = [SyncTop EXCEPT
                                               !.scholar_data = top[t].scholar_data,
                                               !.all_publications = all,
                                               !.issued =
                                                   <<[name |-> "bulk_insert_publications",
                                                      arg |-> Some(all)]>>]]
               /\ op' = [op EXCEPT ![t] = "bulk_insert_publications"]
               /\ loc' = [loc EXCEPT ![t] = BulkLoc(all)]
               /\ pc' = [pc EXCEPT ![t] = "getconn"]
               /\ UNCHANGED <<ctx, ret>>
    /\ UNCHANGED <<env, dbVars, used, conn, tx, pre, calls>>

\* the dict passed to db.update_profile
ProfileData(scholar_data) ==
    [name |-> scholar_data.profile.name,
     affiliation |-> scholar_data.profile.affiliation,
     scholar_url |-> scholar_data.profile.scholar_url,
     total_citations |-> scholar_data.profile.total_citations,
     h_index |-> scholar_data.profile.h_index,
     i10_index |-> scholar_data.profile.i10_index,
     total_publications |-> scholar_data.total_publications]

\* sync_after_bulk without the test of success
sync_after_bulk_unchecked(t) ==
    /\ Syncing(t) /\ pc[t] = "after_bulk_insert_publications"
    /\ top' = [top EXCEPT ![t].bulk_result = ret[t],
                          ![t].success = IF ret[t].kind = "return"
                                         THEN Some(ret[t].val) ELSE @,
                          ![t].issued =
                              IF ret[t].kind = "return"
                              THEN Append(@, [name |-> "update_profile",
                                              arg |-> Some(ProfileData(top[t].scholar_data[1]))])
                              ELSE @]
    /\ IF ret[t].kind = "return"
       THEN /\ op' = [op EXCEPT ![t] = "update_profile"]
            /\ loc' = [loc EXCEPT ![t] = ProfileLoc(ProfileData(top[t].scholar_data[1]))]
            /\ pc' = [pc EXCEPT ![t] = "getconn"]
            /\ UNCHANGED <<ctx, ret>>
       ELSE /\ SyncReturn(t, FALSE)
            /\ UNCHANGED <<op, loc>>
    /\ UNCHANGED <<env, dbVars, used, conn, tx, pre, calls>>

\* success = db.bulk_insert_publications(all_publications); if success:
\* db.update_profile({...}) else: report failure; an exception out of the
\* call goes to the outer except, which reports failure
sync_after_bulk(t) ==
    /\ Syncing(t) /\ pc[t] = "after_bulk_insert_publications"
    /\ top' = [top EXCEPT ![t].bulk_result = ret[t],
                          ![t].success = IF ret[t].kind = "return"
                                         THEN Some(ret[t].val) ELSE @,
                          ![t].issued =
                              IF ret[t].kind = "return" /\ ret[t].val
                              THEN Append(@, [name |-> "update_profile",
                                              arg |-> Some(ProfileData(top[t].scholar_data[1]))])
                              ELSE @]
    /\ IF ret[t].kind = "return" /\ ret[t].val
       THEN /\ op' = [op EXCEPT ![t] = "update_profile"]
            /\ loc' = [loc EXCEPT ![t] = ProfileLoc(ProfileData(top[t].scholar_data[1]))]
            /\ pc' = [pc EXCEPT ![t] = "getconn"]
            /\ UNCHANGED <<ctx, ret>>
       ELSE /\ SyncReturn(t, FALSE)
            /\ UNCHANGED <<op, loc>>
    /\ UNCHANGED <<env, dbVars, used, conn, tx, pre, calls>>

\* sync_after_profile with the route testing the value of db.update_profile
\* and the script not
sync_after_profile_route_tests(t) ==
    /\ Syncing(t) /\ pc[t] = "after_update_profile"
    /\ top' = [top EXCEPT ![t].profile_result = ret[t]]
    /\ SyncReturn(t, IF ret[t].kind = "return"
                     THEN (ctx[t] = "endpoint" => ret[t].val)
                     ELSE FALSE)
    /\ UNCHANGED <<env, dbVars, used, op, conn, tx, loc, pre, calls>>

\* the value of db.update_profile(...) is dropped and the run reports
\* success; an exception out of the call goes to the outer except
sync_after_profile(t) ==
    /\ Syncing(t) /\ pc[t] = "after_update_profile"
    /\ top' = [top EXCEPT ![t].profile_result = ret[t]]
    /\ SyncReturn(t, ret[t].kind = "return")
    /\ UNCHANGED <<env, dbVars, used, op, conn, tx, loc, pre, calls>>

sync(t) ==
    \/ sync_start(t)
    \/ sync_check(t)
    \/ sync_after_bulk(t)
    \/ sync_after_profile(t)

----------------------------------------------------------------------------
(* The reading operations of SupabaseManager.  A statement reads the rows *)
(* committed when it starts.  Rows that the ORDER BY does not tell apart   *)
(* come in any order.                                                      *)

\* the permutations of a list
Perms(rows) ==
    LET n == Len(rows)
    IN {[k \in 1..n |-> rows[f[k]]] :
           f \in {g \in [1..n -> 1..n] : \A j, k \in 1..n : j # k => g[j] # g[k]}}

\* LIMIT per_page OFFSET offset
Window(q, per_page, offset) == SubSeq(q, offset + 1, Min(offset + per_page, Len(q)))

\* ORDER BY year DESC NULLS LAST, citations DESC over the integer column year
BeforeByYear(a, b) ==
    \/ a.year # NULL /\ b.year = NULL
    \/ a.year # NULL /\ b.year # NULL /\ a.year[1] > b.year[1]
    \/ a.year = b.year /\ a.citations > b.citations

\* COALESCE(CAST(year AS TEXT), 'Unknown')
YearText(y) == IF y = NULL THEN Unknown ELSE str(y[1])

\* the same ORDER BY in get_publications, whose select list names the text
\* COALESCE(CAST(year AS TEXT), 'Unknown') year: in ORDER BY a bare name that
\* is both an output and an input column is the output column, so the sort
\* is by that text (never NULL), descending
BeforeByYearText(a, b) ==
    \/ TextLess(YearText(b.year), YearText(a.year))
    \/ YearText(a.year) = YearText(b.year) /\ a.citations > b.citations

\* the groups of GROUP BY year, as rows (year text, count)
YearGroups(rows) ==
    {[year |-> YearText(y), null |-> y = NULL,
      count |-> Cardinality({k \in 1..Len(rows) : rows[k].year = y})] :
        y \in {rows[k].year : k \in 1..Len(rows)}}

\* ORDER BY CASE WHEN year IS NULL THEN 1 ELSE 0 END, year DESC: inside the
\* CASE year is the table's column, the bare year is the output text
BeforeByGroup(a, b) ==
    \/ ~a.null /\ b.null
    \/ a.null = b.null /\ TextLess(b.year, a.year)

\* the ORDER BY clause named order puts a ahead of b
Before(order, a, b) ==
    IF order = "year" THEN BeforeByYear(a, b)
    ELSE IF order = "year_text" THEN BeforeByYearText(a, b)
    ELSE BeforeByGroup(a, b)

\* the orders in which a query with that ORDER BY may return the rows
Ordered(rows, order) ==
    {q \in Perms(rows) : \A j, k \in 1..Len(q) : j < k => ~Before(order, q[k], q[j])}

\* lines 67-72: where_clause and params; NULL where int(year_filter) raises
WhereClause(year_filter) ==
    IF year_filter = NULL \/ year_filter = Some(<<>>) \/ year_filter = Some(<<97, 108, 108>>)
    THEN Some([kind |-> "all"])
    ELSE IF year_filter = Some(Unknown) THEN Some([kind |-> "null"])
    ELSE IF ParseInt(year_filter[1]) = NULL THEN NULL
    ELSE Some([kind |-> "eq", param |-> ParseInt(year_filter[1])[1]])

\* the rows a WHERE clause keeps
Where(rows, w) ==
    SelectSeq(rows, LAMBDA r : \/ w.kind = "all"
                               \/ w.kind = "null" /\ r.year = NULL
                               \/ w.kind = "eq" /\ r.year = Some(w.param))

\* the select list of get_publications
PageRow(r) == [id |-> r.id, title |-> r.title, authors |-> r.authors, venue |-> r.venue,
               year |-> YearText(r.year), citations |-> r.citations,
               scholar_url |-> r.scholar_url, pub_number |-> r.pub_number]

\* Pagination with the page count rounded down
PaginationFloor(page, per_page, total, offset) ==
    [page |-> page, per_page |-> per_page, total |-> total,
     total_pages |-> total \div per_page,
     has_next |-> offset + per_page < total]

\* lines 97-103: the dict 'pagination'
Pagination(page, per_page, total, offset) ==
    [page |-> page, per_page |-> per_page, total |-> total,
     total_pages |-> (total + per_page - 1) \div per_page,
     has_next |-> offset + per_page < total]

PageLoc(page, per_page, year_filter) ==
    [page |-> page, per_page |-> per_page, year_filter |-> year_filter,
     where |-> NULL, total |-> 0, out |-> NoRet]

\* the WHERE clause is built (int(year_filter) may raise ValueError) and
\* SELECT COUNT(*) ... gives total
get_publications_count(t) ==
    /\ op[t] = "get_publications" /\ pc[t] = "count"
    /\ LET w == WhereClause(loc[t].year_filter)
       IN \/ /\ w # NULL
             /\ loc' = [loc EXCEPT ![t].where = w,
                                   ![t].total = Len(Where(publications, w[1]))]
             /\ pc' = [pc EXCEPT ![t] = "select"]
          \/ /\ w = NULL \/ t \in env.faults
             /\ pc' = [pc EXCEPT ![t] = "except"]
             /\ UNCHANGED loc
    /\ UNCHANGED <<env, dbVars, used, op, ctx, conn, tx, top, ret, pre, calls>>

\* offset = (page - 1) * per_page; the page is selected (a negative LIMIT or
\* OFFSET is an error of the statement) and the result is built (a per_page
\* of 0 divides by zero)
get_publications_select(t) ==
    /\ op[t] = "get_publications" /\ pc[t] = "select"
    /\ LET page == loc[t].page
           per_page == loc[t].per_page
           offset == (page - 1) * per_page
       IN \/ /\ per_page > 0 /\ offset >= 0
             /\ \E q \in Ordered(Where(publications, loc[t].where[1]), "year_text") :
                   loc' = [loc EXCEPT ![t].out =
                       Returned(op[t],
                           [publications |->
                                [k \in 1..Len(Window(q, per_page, offset)) |->
                                    PageRow(Window(q, per_page, offset)[k])],
                            pagination |->
                                Pagination(page, per_page, loc[t].total, offset)])]
             /\ pc' = [pc EXCEPT ![t] = "finally"]
          \/ /\ per_page <= 0 \/ offset < 0 \/ t \in env.faults
             /\ pc' = [pc EXCEPT ![t] = "except"]
             /\ UNCHANGED loc
    /\ UNCHANGED <<env, dbVars, used, op, ctx, conn, tx, top, ret, pre, calls>>

get_publications(t) ==
    \/ get_publications_count(t)
    \/ get_publications_select(t)

\* SELECT * FROM publications ORDER BY year DESC NULLS LAST, citations DESC
get_all_publications(t) ==
    /\ op[t] = "get_all_publications" /\ pc[t] = "select"
    /\ \/ /\ \E q \in Ordered(publications, "year") :
                loc' = [loc EXCEPT ![t].out = Returned(op[t], q)]
          /\ pc' = [pc EXCEPT ![t] = "finally"]
       \/ /\ t \in env.faults
          /\ pc' = [pc EXCEPT ![t] = "except"]
          /\ UNCHANGED loc
    /\ UNCHANGED <<env, dbVars, used, op, ctx, conn, tx, top, ret, pre, calls>>

\* lines 147-155: the profile returned while the table is empty
DefaultProfile ==
    [name |-> "Dr. Abhishek Dixit",
     affiliation |-> "Indian Institute of Technology Delhi",
     scholar_url |-> "https://scholar.google.co.in/citations?user=CjJ84BwAAAAJ&hl=en",
     total_citations |-> 0, h_index |-> 0, i10_index |-> 0, total_publications |-> 0]

\* SELECT * FROM scholar_profile ORDER BY last_updated DESC LIMIT 1
LatestProfiles ==
    IF Len(scholar_profile) = 0 THEN {DefaultProfile}
    ELSE {r \in Range(scholar_profile) :
             \A o \in Range(scholar_profile) : o.last_updated <= r.last_updated}

get_profile(t) ==
    /\ op[t] = "get_profile" /\ pc[t] = "select"
    /\ \/ /\ \E r \in LatestProfiles :
                loc' = [loc EXCEPT ![t].out = Returned(op[t], r)]
          /\ pc' = [pc EXCEPT ![t] = "finally"]
       \/ /\ t \in env.faults
          /\ pc' = [pc EXCEPT ![t] = "except"]
          /\ UNCHANGED loc
    /\ UNCHANGED <<env, dbVars, used, op, ctx, conn, tx, top, ret, pre, calls>>

\* the sequence of a finite set, in some order
RECURSIVE SeqOf(_)
SeqOf(S) == IF S = {} THEN <<>>
            ELSE LET x == CHOOSE x \in S : TRUE IN <<x>> \o SeqOf(S \ {x})

\* {row['year']: row['count'] for row in results}, as the list of its items
get_years_with_counts(t) ==
    /\ op[t] = "get_years_with_counts" /\ pc[t] = "select"
    /\ \/ /\ \E q \in Ordered(SeqOf(YearGroups(publications)), "group") :
                loc' = [loc EXCEPT ![t].out =
                    Returned(op[t], [k \in 1..Len(q) |->
                                        [year |-> q[k].year, count |-> q[k].count]])]
          /\ pc' = [pc EXCEPT ![t] = "finally"]
       \/ /\ t \in env.faults
          /\ pc' = [pc EXCEPT ![t] = "except"]
          /\ UNCHANGED loc
    /\ UNCHANGED <<env, dbVars, used, op, ctx, conn, tx, top, ret, pre, calls>>

\* s matches the LIKE pattern p: % is any string, _ any character, a
\* backslash takes the next character literally; ILIKE ignores case
RECURSIVE Like(_, _)
Like(s, p) ==
    IF Len(p) = 0 THEN Len(s) = 0
    ELSE IF p[1] = 37 THEN Like(s, Tail(p)) \/ (Len(s) > 0 /\ Like(Tail(s), p))
    ELSE IF Len(s) = 0 THEN FALSE
    ELSE IF p[1] = 95 THEN Like(Tail(s), Tail(p))
    ELSE IF p[1] = 92 /\ Len(p) > 1
    THEN Lower(s[1]) = Lower(p[2]) /\ Like(Tail(s), Tail(Tail(p)))
    ELSE Lower(s[1]) = Lower(p[1]) /\ Like(Tail(s), Tail(p))

\* WHERE title ILIKE %s OR authors ILIKE %s OR venue ILIKE %s
Found(rows, search_query) ==
    SelectSeq(rows, LAMBDA r : \/ Like(r.title, search_query)
                               \/ Like(r.authors, search_query)
                               \/ Like(r.venue, search_query))

SearchLoc(query, page, per_page) ==
    [query |-> query, page |-> page, per_page |-> per_page, total |-> 0, out |-> NoRet]

\* search_query = f"%{query}%"; SELECT COUNT(*) ... gives total
search_publications_count(t) ==
    /\ op[t] = "search_publications" /\ pc[t] = "count"
    /\ \/ /\ loc' = [loc EXCEPT ![t].total =
                        Len(Found(publications, <<37>> \o loc[t].query \o <<37>>))]
          /\ pc' = [pc EXCEPT ![t] = "select"]
       \/ /\ t \in env.faults
          /\ pc' = [pc EXCEPT ![t] = "except"]
          /\ UNCHANGED loc
    /\ UNCHANGED <<env, dbVars, used, op, ctx, conn, tx, top, ret, pre, calls>>

\* offset = (page - 1) * per_page; SELECT * ... ORDER BY year DESC NULLS LAST,
\* citations DESC LIMIT per_page OFFSET offset
search_publications_select(t) ==
    /\ op[t] = "search_publications" /\ pc[t] = "select"
    /\ LET page == loc[t].page
           per_page == loc[t].per_page
           offset == (page - 1) * per_page
           found == Found(publications, <<37>> \o loc[t].query \o <<37>>)
       IN \/ /\ per_page >= 0 /\ offset >= 0
             /\ \E q \in Ordered(found, "year") :
                   loc' = [loc EXCEPT ![t].out =
                       Returned(op[t],
                           [publications |-> Window(q, per_page, offset),
                            query |-> loc[t].query, total |-> loc[t].total,
                            page |-> page, per_page |-> per_page])]
             /\ pc' = [pc EXCEPT ![t] = "finally"]
          \/ /\ per_page < 0 \/ offset < 0 \/ t \in env.faults
             /\ pc' = [pc EXCEPT ![t] = "except"]
             /\ UNCHANGED loc
    /\ UNCHANGED <<env, dbVars, used, op, ctx, conn, tx, top, ret, pre, calls>>

search_publications(t) ==
    \/ search_publications_count(t)
    \/ search_publications_select(t)

\* a caller outside the model calls the reading operation name with args
CallRead(t, name, args) ==
    /\ pc[t] = "idle"
    /\ ctx' = [ctx EXCEPT ![t] = "direct"]
    /\ op' = [op EXCEPT ![t] = name]
    /\ pc' = [pc EXCEPT ![t] = "getconn"]
    /\ loc' = [loc EXCEPT ![t] = args]
    /\ top' = [top EXCEPT ![t] = args]
    /\ ret' = [ret EXCEPT ![t] = NoRet]
    /\ UNCHANGED <<env, dbVars, used, conn, tx, pre, calls>>

\* a caller outside the model calls db.update_profile(d)
CallUpdateProfile(t, d) ==
    /\ pc[t] = "idle" /\ calls > 0
    /\ calls' = calls - 1
    /\ ctx' = [ctx EXCEPT ![t] = "direct"]
    /\ op' = [op EXCEPT ![t] = "update_profile"]
    /\ pc' = [pc EXCEPT ![t] = "getconn"]
    /\ loc' = [loc EXCEPT ![t] = ProfileLoc(d)]
    /\ top' = [top EXCEPT ![t] = [profile_data |-> d]]
    /\ ret' = [ret EXCEPT ![t] = NoRet]
    /\ pre' = [pre EXCEPT ![t] = Snapshot]
    /\ UNCHANGED <<env, dbVars, used, conn, tx>>

----------------------------------------------------------------------------
(* Stored record sets for the initial states.                             *)

YearCycle == <<Some(2021), Some(2019), NULL>>

\* n publications of the data set named by the letter tag
GenPubs(n, tag) ==
    [k \in 1..n |-> [title |-> <<tag>>, authors |-> <<>>, venue |-> <<>>,
                     year |-> YearCycle[(k % 3) + 1], citations |-> k % 2,
                     scholar_url |-> <<>>, pub_number |-> k]]

----------------------------------------------------------------------------
(* Spec: one operator runs sync runs, by the script or by the admin       *)
(* route, against an author of up to MaxPubs publications; every external *)
(* call and every database statement may fail.                            *)

\* pub_year at the source: '2021', '12345', '0', 'n/a', missing
RawYears == {Some(str(2021)), Some(str(12345)), Some(str(0)), Some(<<110, 47, 97>>), NULL}

\* a publication as scholarly hands it out
Item(y) == [bib |-> [title |-> <<84>>, author |-> PatADixit, venue |-> <<86>>,
                     pub_year |-> y],
            num_citations |-> 0, pub_url |-> <<>>]

RECURSIVE Seqs(_, _)
Seqs(S, n) == IF n = 0 THEN {<<>>}
              ELSE Seqs(S, n - 1) \cup
                   {Append(q, x) : q \in {r \in Seqs(S, n - 1) : Len(r) = n - 1}, x \in S}

Author(items) == [name |-> "Abhishek Dixit", affiliation |-> "IIT Delhi",
                  citedby |-> 7, hindex |-> 2, i10index |-> 1,
                  publications |-> items]

OldProfile == ProfileRow(1, [name |-> "Abhishek Dixit", affiliation |-> "IIT Delhi",
                             scholar_url |-> ScholarUrl, total_citations |-> 5,
                             h_index |-> 1, i10_index |-> 0, total_publications |-> 2], 0)

\* n items whose years run through RawYearCycle
RawYearCycle == <<Some(str(2021)), NULL, Some(str(2019)), Some(str(2021))>>
GenItems(n) == [k \in 1..n |-> Item(RawYearCycle[((k - 1) % 4) + 1])]

\* with failures, authors of 0..MaxPubs publications; without, every list of
\* up to MaxPubs raw years
Scenarios ==
    {[db |-> d, faults |-> {1}, scholar |-> Author(GenItems(n))] :
        d \in BOOLEAN, n \in 0..MaxPubs}
    \cup {[db |-> TRUE, faults |-> {}, scholar |-> Author(items)] :
             items \in Seqs({Item(y) : y \in RawYears}, MaxPubs)}

Init ==
    \E e \in Scenarios, old \in {<<>>, <<OldProfile>>} :
        InitWith(1, e, TableOf(GenPubs(Len(old) * 2, 65), 1), old, SyncRuns)

Next ==
    \/ \E t \in Threads, entry \in {"script", "endpoint"} : CallSync(t, entry)
    \/ \E t \in Threads : sync_start(t)
    \/ \E t \in Threads : fetch_loop(t)
    \/ \E t \in Threads : fetch_search(t)
    \/ \E t \in Threads : fetch_fill(t)
    \/ \E t \in Threads : fetch_item(t)
    \/ \E t \in Threads : fetch_format(t)
    \/ \E t \in Threads : fetch_except(t)
    \/ \E t \in Threads : sync_check(t)
    \/ \E t \in Threads : sync_after_bulk(t)
    \/ \E t \in Threads : sync_after_profile(t)
    \/ \E t \in Threads : get_connection(t)
    \/ \E t \in Threads : bulk_delete(t)
    \/ \E t \in Threads : bulk_delete_done(t)
    \/ \E t \in Threads : bulk_batch(t)
    \/ \E t \in Threads : bulk_commit(t)
    \/ \E t \in Threads : profile_select(t)
    \/ \E t \in Threads : profile_write(t)
    \/ \E t \in Threads : profile_commit(t)
    \/ \E t \in Threads : Except(t)
    \/ \E t \in Threads : Finally(t)

Spec == Init /\ [][Next]_vars

FetchLabels == {"f_loop", "f_search", "f_fill", "f_item", "f_except"}

InSync(t) == ctx[t] \in {"script", "endpoint"}

\* t's last top-level entry was a sync run, now ended
SyncEnded(t) == ret[t].of \in {"sync_all_publications", "sync_scholar_data"}

\* fetch_scholar_data has just returned to the run
FetchReturned(t) == InSync(t) /\ pc[t] = "s_check"

\* C2: a fetch whose every attempt raised returns None after exactly
\* max_retries attempts; no attempt beyond max_retries is ever started.
C2_AllAttemptsFail ==
    \A t \in Threads :
        InSync(t) =>
            /\ top[t].started <= max_retries
            /\ (FetchReturned(t) /\ top[t].raised = top[t].started) =>
                  /\ top[t].started = max_retries
                  /\ top[t].scholar_data = NULL

C2_Witness ==
    \E t \in Threads :
        /\ FetchReturned(t)
        /\ top[t].raised = max_retries
        /\ top[t].scholar_data = NULL

\* C3: a fetch that returns a result returns it from the first attempt that
\* did not raise: attempts 1..k-1 raised, attempt k built the result from its
\* own records, k <= max_retries, and once there is a result the fetcher is
\* in no further attempt.
C3_FirstSuccessReturns ==
    \A t \in Threads :
        InSync(t) =>
            /\ top[t].scholar_data # NULL => pc[t] \notin FetchLabels
            /\ (FetchReturned(t) /\ top[t].scholar_data # NULL) =>
                  /\ top[t].started = top[t].raised + 1
                  /\ top[t].started = top[t].attempt
                  /\ top[t].started \in 1..max_retries
                  /\ top[t].scholar_data[1].total_publications
                        = Len(top[t].processed_pubs)

\* two attempts raised, the third succeeded
C3_Witness ==
    \E t \in Threads :
        /\ FetchReturned(t)
        /\ top[t].scholar_data # NULL
        /\ top[t].raised = 2
        /\ top[t].started = 3

\* the pub_number of each record of a list
PubNumbers(pubs) == [k \in 1..Len(pubs) |-> pubs[k].pub_number]

Ascending(ns) == \A j, k \in 1..Len(ns) : j < k => ns[j] < ns[k]

\* C4: in _process_all_publications, after i items of which the set skipped
\* raised, the output holds one record per other item, numbered by the item's
\* 1-based place in the source list, in ascending order; the loop ends only
\* after the last item.
C4_PerItemIsolation ==
    \A t \in Threads :
        (InSync(t) /\ pc[t] = "f_item") =>
            LET out == top[t].processed_pubs
            IN /\ top[t].i <= Len(env.scholar.publications)
               /\ top[t].skipped \subseteq 1..top[t].i
               /\ Len(out) = top[t].i - Cardinality(top[t].skipped)
               /\ Ascending(PubNumbers(out))
               /\ Range(PubNumbers(out)) = (1..top[t].i) \ top[t].skipped
               /\ \A k \in 1..Len(out) :
                     out[k] = ProcessedPub(env.scholar.publications[out[k].pub_number],
                                           out[k].pub_number - 1)

\* of at least three items, the second alone raised, and the loop is over
C4_Witness ==
    \E t \in Threads :
        /\ InSync(t) /\ pc[t] = "f_item"
        /\ top[t].i = Len(env.scholar.publications)
        /\ top[t].i >= 3
        /\ top[t].skipped = {2}
        /\ PubNumbers(top[t].processed_pubs) = <<1>> \o [k \in 1..(top[t].i - 2) |-> k + 2]

\* C5: with no result from the fetcher, the run calls no gateway operation,
\* leaves both tables as they were and reports failure.
C5_FetchFailureNoMutation ==
    \A t \in Threads :
        /\ (InSync(t) /\ top[t].scholar_data = NULL) =>
              /\ op[t] = "none"
              /\ Snapshot = pre[t]
        /\ (SyncEnded(t) /\ top[t].scholar_data = NULL) =>
              /\ ReportsFailure(ret[t])
              /\ Snapshot = pre[t]

\* all attempts raised, the run has reported failure, the stored rows are there
C5_Witness ==
    \E t \in Threads :
        /\ SyncEnded(t)
        /\ top[t].raised = max_retries
        /\ ReportsFailure(ret[t])
        /\ Len(publications) > 0 /\ Len(scholar_profile) > 0

\* a gateway call that failed: it returned False or raised
Failed(outcome) ==
    \/ outcome.kind = "raise"
    \/ outcome.kind = "return" /\ outcome.val = FALSE

\* C6 (as claimed): a run in which bulk replace or profile upsert failed
\* reports failure.
C6_StorageFailureTerminal ==
    \A t \in Threads :
        (SyncEnded(t) /\ (Failed(top[t].bulk_result) \/ Failed(top[t].profile_result))) =>
            ReportsFailure(ret[t])

\* C7: the steps of a run come in the order fetch, bulk replace, profile
\* upsert.  Bulk replace is called only with a fetched result and before any
\* profile write; profile upsert is called only after bulk replace returned
\* True with the new list committed; after bulk replace returned False (or
\* raised) the profile upsert is not called, the profile table is as before
\* and the run reports failure.
C7_StepOrder ==
    \A t \in Threads :
        /\ InSync(t) =>
              /\ pc[t] \in FetchLabels =>
                    op[t] = "none" /\ top[t].bulk_result = NoRet /\ Snapshot = pre[t]
              /\ op[t] = "bulk_insert_publications" =>
                    /\ top[t].scholar_data # NULL
                    /\ top[t].bulk_result = NoRet /\ top[t].profile_result = NoRet
                    /\ scholar_profile = pre[t].scholar_profile
              /\ op[t] = "update_profile" =>
                    /\ top[t].success = Some(TRUE)
                    /\ top[t].bulk_result = Returned("bulk_insert_publications", TRUE)
                    /\ Records(publications) = Values(top[t].all_publications)
        /\ ((InSync(t) \/ SyncEnded(t)) /\ Failed(top[t].bulk_result)) =>
                  /\ op[t] = "none"
                  /\ top[t].profile_result = NoRet
                  /\ scholar_profile = pre[t].scholar_profile
                  /\ SyncEnded(t) /\ ReportsFailure(ret[t])

\* the profile upsert is about to commit, after a bulk replace that stored
\* a non-empty list
C7_Witness ==
    \E t \in Threads :
        /\ InSync(t) /\ op[t] = "update_profile" /\ pc[t] = "commit"
        /\ top[t].success = Some(TRUE)
        /\ Len(publications) > 0

\* the run of t has committed its bulk replace
BulkCommitted(t) ==
    (InSync(t) \/ SyncEnded(t))
    /\ top[t].bulk_result = Returned("bulk_insert_publications", TRUE)

\* pub_year of the source item that the stored row r was made from
RawYearOf(r) == env.scholar.publications[r.pub_number].bib.pub_year

\* the raw year is numeric: present and all digits
NumericYear(y) == y # NULL /\ isdigit(y[1])

\* C14 (as claimed): after the bulk replace of a sync run, every stored
\* record made from an item whose raw year is numeric has that integer as
\* its year, and every record made from an item whose raw year is not
\* numeric or is missing has no year (NULL).
C14_YearNormalization ==
    \A t \in Threads :
        BulkCommitted(t) =>
            \A k \in 1..Len(publications) :
                publications[k].year =
                    IF NumericYear(RawYearOf(publications[k]))
                    THEN Some(int(RawYearOf(publications[k])[1]))
                    ELSE NULL

\* C15 (as claimed): after the bulk replace of a sync run, every stored year
\* that is present is a four-digit value, and a record whose source year is
\* the number 0 is not stored as a record without a year.
C15_PlausibleYear ==
    \A t \in Threads :
        BulkCommitted(t) =>
            \A k \in 1..Len(publications) :
                /\ publications[k].year # NULL =>
                      publications[k].year[1] \in 1000..9999
                /\ (NumericYear(RawYearOf(publications[k]))
                    /\ int(RawYearOf(publications[k])[1]) = 0) =>
                      publications[k].year # NULL

\* the years, unknown ones last and the known ones not increasing
UnknownLastDescending(years) ==
    \A j, k \in 1..Len(years) :
        j < k =>
            /\ years[j] = NULL => years[k] = NULL
            /\ (years[j] # NULL /\ years[k] # NULL) => years[j][1] >= years[k][1]

\* C16 (as claimed): the year groups of publications_by_year come with the
\* numeric years first, descending, and every non-numeric year after them;
\* the list that the run flattens from them has its years not increasing
\* and every record without a year after every record with one.
C16_SortedUnknownLast ==
    \A t \in Threads :
        ((InSync(t) \/ SyncEnded(t)) /\ top[t].scholar_data # NULL) =>
            LET groups == top[t].scholar_data[1].publications_by_year
                all == top[t].all_publications
            IN /\ UnknownLastDescending(
                      [g \in 1..Len(groups) |->
                          IF isdigit(groups[g].year) THEN Some(int(groups[g].year))
                          ELSE NULL])
               /\ UnknownLastDescending([k \in 1..Len(all) |-> all[k].year])

\* the fetcher of t is about to call the external source
AboutToCall(t) ==
    /\ InSync(t) /\ op[t] = "none"
    /\ \/ pc[t] \in {"f_search", "f_fill"}
       \/ pc[t] = "f_item" /\ top[t].i < Len(env.scholar.publications)

\* C17 (as claimed): when the fetcher calls the external source and its
\* last call was a detail call (scholarly.fill of a publication), whether
\* that call returned or raised, at least 2.5 seconds of sleep lie between
\* the two calls.
C17_DetailCallDelay ==
    \A t \in Threads :
        (AboutToCall(t) /\ top[t].last = "fill_pub") => top[t].since >= 2500

\* C18: attempt n sleeps base_delay + (n - 1) seconds, that is 2, 3 and 4
\* seconds for attempts 1, 2 and 3, and the sleep of an attempt is done
\* before any of its external calls: at the first call of attempt n at
\* least that long has been slept since the call before it.
C18_AttemptDelay ==
    \A t \in Threads :
        InSync(t) =>
            /\ Len(top[t].delays) = top[t].started
            /\ \A n \in 1..Len(top[t].delays) :
                  /\ top[t].delays[n] = Seconds(2) + Seconds(n - 1)
                  /\ top[t].delays[n] = <<2000, 3000, 4000>>[n]
            /\ pc[t] \in {"f_search", "f_fill", "f_item"} =>
                  /\ Len(top[t].delays) = top[t].attempt
                  /\ top[t].delay = top[t].delays[top[t].attempt]
            /\ pc[t] = "f_search" => top[t].since >= top[t].delay

\* the third attempt is about to make its first call, after sleeps of 2, 3
\* and 4 seconds
C18_Witness ==
    \E t \in Threads :
        /\ InSync(t) /\ pc[t] = "f_search"
        /\ top[t].attempt = 3
        /\ top[t].delays = <<2000, 3000, 4000>>
        /\ top[t].since >= 4000

\* C19: a failed attempt n below max_retries is followed by a sleep of
\* 2^n seconds and a fraction of a second (2.x after attempt 1, 4.x after
\* attempt 2) before attempt n + 1 starts; the failure of attempt
\* max_retries is followed by no sleep: None is returned with nothing slept
\* since the call that raised.
C19_Backoff ==
    \A t \in Threads :
        InSync(t) =>
            /\ Len(top[t].backoffs) = Min(top[t].raised, max_retries - 1)
            /\ \A n \in 1..Len(top[t].backoffs) :
                  /\ top[t].backoffs[n] - Seconds(2 ^ n) \in 0..999
                  /\ top[t].backoffs[n] \div 1000 = <<2, 4>>[n]
            /\ (pc[t] = "f_loop" /\ top[t].raised >= 1) =>
                  /\ top[t].attempt = top[t].raised
                  /\ top[t].backoff_delay = top[t].backoffs[top[t].raised]
                  /\ top[t].since >= top[t].backoff_delay
            /\ (FetchReturned(t) /\ top[t].raised = max_retries) =>
                  top[t].scholar_data = NULL /\ top[t].since = 0

\* the third attempt raised and None is returned at once, after backoffs of
\* 2.0 and 4.999 seconds
C19_Witness ==
    \E t \in Threads :
        /\ FetchReturned(t)
        /\ top[t].raised = max_retries
        /\ top[t].backoffs = <<2000, 4999>>
        /\ top[t].since = 0

----------------------------------------------------------------------------
(* SpecBulk: one caller replaces a stored record set by lists of zero to  *)
(* MaxBatches batches and a remainder, with a failure possible at every   *)
(* statement.                                                             *)

BulkLens == {0, 1} \cup {m * batch_size : m \in 1..MaxBatches}
                   \cup {m * batch_size + 1 : m \in 1..MaxBatches}

InitBulk ==
    \E n \in {0, 2, batch_size + 1} :
        InitWith(1, GatewayOnly, TableOf(GenPubs(n, 65), 1), <<>>, BulkCalls)

NextBulk ==
    \/ \E t \in Threads, n \in BulkLens : CallBulkInsert(t, GenPubs(n, 66))
    \/ \E t \in Threads : get_connection(t)
    \/ \E t \in Threads : bulk_delete(t)
    \/ \E t \in Threads : bulk_delete_done(t)
    \/ \E t \in Threads : bulk_batch(t)
    \/ \E t \in Threads : bulk_commit(t)
    \/ \E t \in Threads : Except(t)
    \/ \E t \in Threads : Finally(t)

SpecBulk == InitBulk /\ [][NextBulk]_vars

\* the committed table is the record set stored before the replace began
BulkOld(t) == publications = pre[t].publications

\* the committed table holds exactly the records of the list passed in
BulkNew(t) == Records(publications) = Values(top[t].publications)

\* while bulk_insert_publications runs and after it, however it ends, the
\* committed table is the complete old record set or the complete new one,
\* and the old one unless True was returned
BulkOldOrNew ==
    \A t \in Threads :
        /\ op[t] = "bulk_insert_publications" => BulkOld(t) \/ BulkNew(t)
        /\ ret[t].of = "bulk_insert_publications" =>
              IF ret[t] = Returned("bulk_insert_publications", TRUE)
              THEN BulkNew(t) ELSE BulkOld(t)

\* C1 (as claimed): bulk replace is atomic.  While bulk_insert_publications
\* runs and after it, the committed table is the complete old record set or
\* the complete new one; a failure at any point (the DELETE, any batch, the
\* commit) leaves the old set committed and the operation returns False.
C1_BulkReplaceAtomic ==
    /\ BulkOldOrNew
    /\ \A t \in Threads :
          ret[t].of = "bulk_insert_publications" =>
              /\ ret[t].kind = "return"
              /\ ret[t].val = FALSE => BulkOld(t)
              /\ ret[t].val = TRUE => BulkNew(t)

----------------------------------------------------------------------------
(* SpecRebulk: one caller replaces a stored record set by a list and,     *)
(* when that has returned True, calls bulk replace again with the same    *)
(* list; a failure is possible at every statement.                        *)

\* the lists passed in: none, two records, a batch and one more, and two
\* records of which the first has the year 0
ReplaceLists ==
    {GenPubs(n, 66) : n \in {0, 2, batch_size + 1}}
    \cup {[GenPubs(2, 67) EXCEPT ![1].year = Some(0)]}

InitRebulk ==
    \E n \in {0, 2} :
        InitWith(1, GatewayOnly, TableOf(GenPubs(n, 65), 1), <<>>, 2)

\* the caller calls db.bulk_insert_publications(L) once more after True
CallBulkAgain(t) ==
    /\ ret[t] = Returned("bulk_insert_publications", TRUE)
    /\ CallBulkInsert(t, top[t].publications)

NextRebulk ==
    \/ \E t \in Threads, L \in ReplaceLists : ret[t] = NoRet /\ CallBulkInsert(t, L)
    \/ \E t \in Threads : CallBulkAgain(t)
    \/ \E t \in Threads : get_connection(t)
    \/ \E t \in Threads : bulk_delete(t)
    \/ \E t \in Threads : bulk_delete_done(t)
    \/ \E t \in Threads : bulk_batch(t)
    \/ \E t \in Threads : bulk_commit(t)
    \/ \E t \in Threads : Except(t)
    \/ \E t \in Threads : Finally(t)

SpecRebulk == InitRebulk /\ [][NextRebulk]_vars

\* C24 (as claimed): after bulk_insert_publications(L) returned True the
\* stored records, ids aside, are exactly the records of L in the order of
\* L, whatever was stored before; and after a second call with the same L
\* returned True they are what they were before that call.
C24_IdempotentFullReplace ==
    \A t \in Threads :
        ret[t] = Returned("bulk_insert_publications", TRUE) =>
            /\ Records(publications) = top[t].publications
            /\ Ids(publications) \cap Ids(pre[t].publications) = {}
            /\ calls = 0 => Records(publications) = Records(pre[t].publications)

----------------------------------------------------------------------------
(* SpecRead: one caller reads a page of get_publications or of            *)
(* search_publications from a stored table of up to MaxRows records; a    *)
(* behaviour is one table and one call, since reading changes no table.   *)

\* the records of the stored tables: a year or none, citations, a title
ReadKinds == {[year |-> NULL, citations |-> 0, title |-> <<65>>],
              [year |-> Some(2021), citations |-> 1, title |-> <<65>>],
              [year |-> Some(2021), citations |-> 0, title |-> <<98>>],
              [year |-> Some(2019), citations |-> 1, title |-> <<65>>]}

ReadPubs(kinds) ==
    [k \in 1..Len(kinds) |-> [title |-> kinds[k].title, authors |-> <<>>, venue |-> <<>>,
                              year |-> kinds[k].year, citations |-> kinds[k].citations,
                              scholar_url |-> <<>>, pub_number |-> k]]

\* no filter, '', 'all', 'Unknown', '2021', ' 2019', '1999', 'n/a'
YearFilters == {NULL, Some(<<>>), Some(<<97, 108, 108>>), Some(Unknown), Some(str(2021)),
                Some(<<32>> \o str(2019)), Some(str(1999)), Some(<<110, 47, 97>>)}

\* 'a', 'x', '_'
Queries == {<<97>>, <<120>>, <<95>>}

Pages == 0..MaxRows
PerPages == (0 - 1)..MaxRows

InitRead ==
    \E kinds \in Seqs(ReadKinds, MaxRows) :
        InitWith(1, GatewayOnly, TableOf(ReadPubs(kinds), 1), <<>>, 0)

NextRead ==
    \/ \E t \in Threads, page \in Pages, per_page \in PerPages, year_filter \in YearFilters :
          /\ ret[t] = NoRet
          /\ CallRead(t, "get_publications", PageLoc(page, per_page, year_filter))
    \/ \E t \in Threads, query \in Queries, page \in Pages, per_page \in PerPages :
          /\ ret[t] = NoRet
          /\ CallRead(t, "search_publications", SearchLoc(query, page, per_page))
    \/ \E t \in Threads : get_connection(t)
    \/ \E t \in Threads : get_publications_count(t)
    \/ \E t \in Threads : get_publications_select(t)
    \/ \E t \in Threads : search_publications_count(t)
    \/ \E t \in Threads : search_publications_select(t)
    \/ \E t \in Threads : Except(t)
    \/ \E t \in Threads : Finally(t)

SpecRead == InitRead /\ [][NextRead]_vars

\* year and citations of the records of a returned page; get_publications
\* returns the year as text, search_publications as the column's integer
PageKeys(r) ==
    [k \in 1..Len(r.val.publications) |->
        LET row == r.val.publications[k]
        IN [year |-> IF r.of = "search_publications" THEN row.year
                     ELSE IF row.year = Unknown THEN NULL
                     ELSE Some(int(row.year)),
            citations |-> row.citations]]

\* keys in the documented order
InDocumentedOrder(keys) ==
    \A j, k \in 1..Len(keys) :
        j < k =>
            /\ ~(keys[j].year = NULL /\ keys[k].year # NULL)
            /\ (keys[j].year # NULL /\ keys[k].year # NULL) =>
                  /\ keys[j].year[1] >= keys[k].year[1]
                  /\ keys[j].year = keys[k].year =>
                        keys[j].citations >= keys[k].citations

\* C8 (as claimed): every page that get_publications or search_publications
\* returns lists the records without a year after those with one, the
\* latter by year descending and, within a year, by citations descending.
C8_NullYearsLast ==
    \A t \in Threads :
        (ret[t].kind = "return"
         /\ ret[t].of \in {"get_publications", "search_publications"}) =>
            InDocumentedOrder(PageKeys(ret[t]))

\* the stored records that a year filter selects
Matching(year_filter) ==
    {k \in 1..Len(publications) :
        \/ year_filter \in {NULL, Some(<<>>), Some(<<97, 108, 108>>)}
        \/ year_filter = Some(Unknown) /\ publications[k].year = NULL
        \/ /\ year_filter # Some(Unknown)
           /\ publications[k].year # NULL
           /\ publications[k].year = ParseInt(year_filter[1])}

\* the least n with n * b >= a
Ceil(a, b) == CHOOSE n \in 0..a : n * b >= a /\ (n = 0 \/ (n - 1) * b < a)

\* C9: the pagination that get_publications(page, per_page, year_filter)
\* returns has total = the number of stored records matching the filter,
\* total_pages = ceil(total / per_page), and has_next exactly when
\* page * per_page < total.
C9_Pagination ==
    \A t \in Threads :
        (ret[t].kind = "return" /\ ret[t].of = "get_publications") =>
            LET p == ret[t].val.pagination
                total == Cardinality(Matching(top[t].year_filter))
            IN /\ p.page = top[t].page /\ p.per_page = top[t].per_page
               /\ p.total = total
               /\ p.total_pages = Ceil(total, p.per_page)
               /\ p.has_next <=> (p.page * p.per_page < total)

\* page 1 of three records, two to a page: two pages, and there is a next
C9_Witness ==
    \E t \in Threads :
        /\ ret[t].kind = "return" /\ ret[t].of = "get_publications"
        /\ top[t].page = 1 /\ top[t].per_page = 2
        /\ ret[t].val.pagination.total = 3
        /\ ret[t].val.pagination.total_pages = 2
        /\ ret[t].val.pagination.has_next

\* q occurs in s, ignoring case
Contains(s, q) ==
    \E k \in 0..(Len(s) - Len(q)) : \A j \in 1..Len(q) : Lower(s[k + j]) = Lower(q[j])

\* q occurs in the title, the authors or the venue of record r
HasQuery(r, q) == Contains(r.title, q) \/ Contains(r.authors, q) \/ Contains(r.venue, q)

\* C12 (as claimed): every record that search_publications(query, ...)
\* returns has the query string, ignoring case, inside its title, authors or
\* venue, and total is the number of stored records that do.
C12_SearchSubstring ==
    \A t \in Threads :
        (ret[t].kind = "return" /\ ret[t].of = "search_publications") =>
            /\ \A k \in 1..Len(ret[t].val.publications) :
                  HasQuery(ret[t].val.publications[k], top[t].query)
            /\ ret[t].val.total =
                  Cardinality({k \in 1..Len(publications) :
                                  HasQuery(publications[k], top[t].query)})

----------------------------------------------------------------------------
(* SpecPool: maxconn + 1 threads share the pool.  Thread 1 calls any of   *)
(* the seven operations, and its statements may fail; the others are      *)
(* requests for the year counts.  To keep their configurations few, the   *)
(* other requests nest: one begins while the one before it holds its      *)
(* connection, and ends before that one does.  Thread 1 runs freely       *)
(* among them.                                                            *)

PoolThreads == maxconn + 1

Others == Threads \ {1}

\* the arguments of operations that take none
NoArgs == [out |-> NoRet]

\* thread u of the others may begin: those before it hold their connections
MayBegin(u) == \A v \in Others : v < u => pc[v] = "select"

\* thread t's query may end: no later one of the others is under way
MayEnd(t) == t = 1 \/ \A v \in Others : v > t => pc[v] = "idle"

InitPool ==
    InitWith(PoolThreads, GatewayOnly, TableOf(GenPubs(2, 65), 1), <<OldProfile>>, 1)

NextPool ==
    \/ \E per_page \in {0, 1}, year_filter \in {NULL, Some(<<110, 47, 97>>)} :
          CallRead(1, "get_publications", PageLoc(1, per_page, year_filter))
    \/ CallRead(1, "search_publications", SearchLoc(<<65>>, 1, 1))
    \/ CallRead(1, "get_all_publications", NoArgs)
    \/ CallRead(1, "get_profile", NoArgs)
    \/ \E t \in Threads :
          /\ t \in Others => MayBegin(t)
          /\ CallRead(t, "get_years_with_counts", NoArgs)
    \/ CallBulkInsert(1, GenPubs(2, 66))
    \/ CallUpdateProfile(1, ProfileData(_format_scholar_data(Author(<<>>), <<>>)))
    \/ \E t \in Threads : get_connection(t)
    \/ \E t \in Threads : get_publications_count(t)
    \/ \E t \in Threads : get_publications_select(t)
    \/ \E t \in Threads : search_publications_count(t)
    \/ \E t \in Threads : search_publications_select(t)
    \/ \E t \in Threads : get_all_publications(t)
    \/ \E t \in Threads : get_profile(t)
    \/ \E t \in Threads : MayEnd(t) /\ get_years_with_counts(t)
    \/ \E t \in Threads : bulk_delete(t)
    \/ \E t \in Threads : bulk_delete_done(t)
    \/ \E t \in Threads : bulk_batch(t)
    \/ \E t \in Threads : bulk_commit(t)
    \/ \E t \in Threads : profile_select(t)
    \/ \E t \in Threads : profile_write(t)
    \/ \E t \in Threads : profile_commit(t)
    \/ \E t \in Threads : Except(t)
    \/ \E t \in Threads : Finally(t)

SpecPool == InitPool /\ [][NextPool]_vars

\* the threads holding a connection
Holders == {t \in Threads : conn[t]}

\* C10: a thread holds a connection only inside a gateway operation, holds
\* one throughout the operation's statements, and holds none once the
\* operation is left, however it is left; the pool's count of checked-out
\* connections is the number of holders, never above maxconn, and 0 when no
\* operation is under way.
C10_PoolDiscipline ==
    /\ used = Cardinality(Holders)
    /\ used <= maxconn
    /\ \A t \in Threads :
          /\ op[t] = "none" => ~conn[t]
          /\ (op[t] # "none" /\ pc[t] \notin {"getconn", "except", "finally"}) => conn[t]
    /\ (\A t \in Threads : op[t] = "none") => used = 0

\* nothing is under way and nothing is checked out, after thread 1 left an
\* operation by an exception, another by return False, and one of the others
\* found the pool exhausted (its year counts came back empty)
C10_Witness ==
    /\ \A t \in Threads : op[t] = "none"
    /\ used = 0
    /\ ret[1] = Returned("bulk_insert_publications", FALSE)
    /\ \E u \in Others : ret[u] = Returned("get_years_with_counts", <<>>)
    /\ \A u \in Others : ret[u] # NoRet

----------------------------------------------------------------------------
(* SpecProfile: one caller upserts the profile ProfileCalls times, one    *)
(* call after the other, over a table of no row or one; every statement   *)
(* may fail.                                                              *)

\* the aggregate of a sync run that counted c citations
ProfileDataOf(c) ==
    [ProfileData(_format_scholar_data(Author(<<>>), <<>>)) EXCEPT !.total_citations = c]

InitProfile ==
    \E old \in {<<>>, <<OldProfile>>} : InitWith(1, GatewayOnly, <<>>, old, ProfileCalls)

NextProfile ==
    \/ \E t \in Threads, c \in {7, 8} : CallUpdateProfile(t, ProfileDataOf(c))
    \/ \E t \in Threads : get_connection(t)
    \/ \E t \in Threads : profile_select(t)
    \/ \E t \in Threads : profile_write(t)
    \/ \E t \in Threads : profile_commit(t)
    \/ \E t \in Threads : Except(t)
    \/ \E t \in Threads : Finally(t)

SpecProfile == InitProfile /\ [][NextProfile]_vars

\* the row holds the values of profile data d
HoldsData(row, d) == row = ProfileRow(row.id, d, row.last_updated)

\* C11: under serial invocation over a table of at most one row, the table
\* never has more than one row.  A call that returns True on the empty table
\* leaves one row holding its values; a call that returns True on a table of
\* one row leaves that row, under the same id, holding the call's values and
\* a later last_updated; a call that does not return True leaves the table
\* as it was.
C11_SingleProfileRow ==
    /\ Len(scholar_profile) <= 1
    /\ \A t \in Threads :
          ret[t].of = "update_profile" =>
              IF ret[t] = Returned("update_profile", TRUE)
              THEN /\ Len(scholar_profile) = 1
                   /\ HoldsData(scholar_profile[1], top[t].profile_data)
                   /\ \A k \in 1..Len(pre[t].scholar_profile) :
                         /\ scholar_profile[1].id = pre[t].scholar_profile[k].id
                         /\ scholar_profile[1].last_updated
                               > pre[t].scholar_profile[k].last_updated
              ELSE scholar_profile = pre[t].scholar_profile

\* the table was empty, a first call inserted the row, and a later call
\* with other values has updated that row in place
C11_Witness ==
    \E t \in Threads :
        /\ ret[t] = Returned("update_profile", TRUE)
        /\ calls <= ProfileCalls - 2
        /\ Len(pre[t].scholar_profile) = 1
        /\ pre[t].scholar_profile[1].last_updated > 0
        /\ pre[t].scholar_profile[1].total_citations
              # scholar_profile[1].total_citations

----------------------------------------------------------------------------
(* SpecRace: Callers threads upsert the profile over an empty table, one  *)
(* call each at most, their statements interleaved in any way; the        *)
(* statements of thread 1 may fail.                                       *)

InitRace == InitWith(Callers, GatewayOnly, <<>>, <<>>, Callers)

NextRace ==
    \/ \E t \in Threads : ret[t] = NoRet /\ CallUpdateProfile(t, ProfileDataOf(6 + t))
    \/ \E t \in Threads : get_connection(t)
    \/ \E t \in Threads : profile_select(t)
    \/ \E t \in Threads : profile_write(t)
    \/ \E t \in Threads : profile_commit(t)
    \/ \E t \in Threads : Except(t)
    \/ \E t \in Threads : Finally(t)

SpecRace == InitRace /\ [][NextRace]_vars

\* C20: the profile upsert is a read followed by a write with nothing to
\* keep other callers out between the two.  A call reads 'no row exists'
\* exactly when the committed table is empty at its SELECT, whatever other
\* calls have written and not yet committed; a row is added to the table
\* only by the commit of a call that read 'no row exists', one row at a
\* time.  So two interleaved calls on the empty table can both read 'no
\* row exists' and both insert (the witness), and only calls whose SELECT
\* comes before the other's commit do.
C20_ReadThenWriteRace ==
    [][/\ Len(scholar_profile') <= Len(scholar_profile) + 1
       /\ Len(scholar_profile') > Len(scholar_profile) =>
             \E t \in Threads :
                 /\ op[t] = "update_profile" /\ pc[t] = "commit"
                 /\ loc[t].existing = NULL
                 /\ pc'[t] = "finally"
       /\ \A t \in Threads :
             (op[t] = "update_profile" /\ pc[t] = "select" /\ pc'[t] = "write") =>
                 (loc'[t].existing = NULL <=> Len(scholar_profile) = 0)]_vars

\* two calls that both began on the empty table have both returned True
\* and the table has two rows, one from each
C20_Witness ==
    \E t, u \in Threads :
        /\ t # u
        /\ ret[t] = Returned("update_profile", TRUE)
        /\ ret[u] = Returned("update_profile", TRUE)
        /\ pre[t].scholar_profile = <<>> /\ pre[u].scholar_profile = <<>>
        /\ Len(scholar_profile) = 2
        /\ scholar_profile[1].id # scholar_profile[2].id
        /\ {scholar_profile[1].total_citations, scholar_profile[2].total_citations}
              = {top[t].profile_data.total_citations, top[u].profile_data.total_citations}

----------------------------------------------------------------------------
(* SpecOverlap: the storage step of Callers sync runs at once.  Each      *)
(* caller replaces the stored record set by the list its run fetched, one *)
(* call each at most, over an empty table or a table of two records; the  *)
(* statements of thread 1 may fail.                                       *)

\* the list that the run of thread t carries: t records of its own
ListOf(t) == GenPubs(t, 64 + t)

InitOverlap ==
    \E n \in {0, 2} :
        InitWith(Callers, GatewayOnly, TableOf(GenPubs(n, 90), 1), <<>>, Callers)

NextOverlap ==
    \/ \E t \in Threads : ret[t] = NoRet /\ CallBulkInsert(t, ListOf(t))
    \/ \E t \in Threads : get_connection(t)
    \/ \E t \in Threads : bulk_delete(t)
    \/ \E t \in Threads : bulk_delete_done(t)
    \/ \E t \in Threads : bulk_batch(t)
    \/ \E t \in Threads : bulk_commit(t)
    \/ \E t \in Threads : Except(t)
    \/ \E t \in Threads : Finally(t)

SpecOverlap == InitOverlap /\ [][NextOverlap]_vars

\* t is inside bulk_insert_publications with its connection
InBulk(t) == op[t] = "bulk_insert_publications" /\ conn[t]

\* C21: nothing keeps a second bulk replace out while one is running, and
\* the DELETE of a run removes only rows that were committed when it began.
\* When a run commits, the table becomes the rows committed by others since
\* its DELETE began, followed by the run's own list: a run that overlaps
\* another leaves the records of both (the witness), a table that is the
\* list of neither.
C21_OverlapMergesSets ==
    [][\A t \in Threads :
          (InBulk(t) /\ pc[t] = "batch" /\ pc'[t] = "finally") =>
              Records(publications') =
                  Records(SelectSeq(publications, LAMBDA r : r.id \notin loc[t].snap))
                  \o Values(top[t].publications)]_vars

\* two runs are inside bulk replace at the same time, both have committed,
\* and the table holds the records of both lists: it is neither list
C21_Witness ==
    \E t, u \in Threads :
        /\ t # u
        /\ InBulk(t) /\ InBulk(u)
        /\ pc[t] = "finally" /\ pc[u] = "finally"
        /\ loc[t].out = Returned("bulk_insert_publications", TRUE)
        /\ loc[u].out = Returned("bulk_insert_publications", TRUE)
        /\ Records(publications) = Values(ListOf(t)) \o Values(ListOf(u))
        /\ Records(publications) # Values(ListOf(t))
        /\ Records(publications) # Values(ListOf(u))
        /\ Range(Values(ListOf(t))) \cap Range(Values(ListOf(u))) = {}

----------------------------------------------------------------------------
(* SpecTwin: the script (thread 1) runs a sync, and when it has ended the *)
(* admin route (thread 2) runs one, against the same author; every        *)
(* external call and every database statement of either may fail.         *)

TwinScenarios ==
    {[db |-> d, faults |-> {1, 2}, scholar |-> Author(GenItems(n))] :
        d \in BOOLEAN, n \in 0..(MaxPubs - 1)}

InitTwin ==
    \E e \in TwinScenarios : InitWith(2, e, TableOf(GenPubs(2, 65), 1), <<OldProfile>>, 2)

NextTwin ==
    \/ CallSync(1, "script")
    \/ SyncEnded(1) /\ CallSync(2, "endpoint")
    \/ \E t \in Threads : sync_start(t)
    \/ \E t \in Threads : fetch_loop(t)
    \/ \E t \in Threads : fetch_search(t)
    \/ \E t \in Threads : fetch_fill(t)
    \/ \E t \in Threads : fetch_item(t)
    \/ \E t \in Threads : fetch_format(t)
    \/ \E t \in Threads : fetch_except(t)
    \/ \E t \in Threads : sync_check(t)
    \/ \E t \in Threads : sync_after_bulk(t)
    \/ \E t \in Threads : sync_after_profile(t)
    \/ \E t \in Threads : get_connection(t)
    \/ \E t \in Threads : bulk_delete(t)
    \/ \E t \in Threads : bulk_delete_done(t)
    \/ \E t \in Threads : bulk_batch(t)
    \/ \E t \in Threads : bulk_commit(t)
    \/ \E t \in Threads : profile_select(t)
    \/ \E t \in Threads : profile_write(t)
    \/ \E t \in Threads : profile_commit(t)
    \/ \E t \in Threads : Except(t)
    \/ \E t \in Threads : Finally(t)

SpecTwin == InitTwin /\ [][NextTwin]_vars

\* the script's run and the route's run have both ended
BothEnded == ret[1].of = "sync_all_publications" /\ ret[2].of = "sync_scholar_data"

\* the fetcher gave both runs the same outcome; so did bulk replace; so did
\* the profile upsert
SameFetch == top[1].scholar_data = top[2].scholar_data

SameBulk == SameFetch /\ top[1].bulk_result = top[2].bulk_result

SameProfile == SameBulk /\ top[1].profile_result = top[2].profile_result

----------------------------------------------------------------------------
(* SpecHighlight: _highlight_author_name applied to author lists put      *)
(* together from up to MaxTokens pieces: the owner's name in its three    *)
(* forms and in other case, another author, a separator and a letter that *)
(* glues to what follows.                                                 *)

\* 'A Dixit', 'a dixit', 'ABHISHEK DIXIT', 'A. Dixit', 'J Smith', ', ', 'x'
Tokens == {PatADixit,
           <<97, 32, 100, 105, 120, 105, 116>>,
           <<65, 66, 72, 73, 83, 72, 69, 75, 32, 68, 73, 88, 73, 84>>,
           PatADotDixit,
           <<74, 32, 83, 109, 105, 116, 104>>,
           <<44, 32>>,
           <<120>>}

RECURSIVE Join(_)
Join(pieces) == IF Len(pieces) = 0 THEN <<>> ELSE Head(pieces) \o Join(Tail(pieces))

AuthorLists == {Join(pieces) : pieces \in Seqs(Tokens, MaxTokens)}

InitHighlight == InitWith(1, GatewayOnly, <<>>, <<>>, 0)

\* line 85: authors = self._highlight_author_name(authors)
CallHighlight(t, authors) ==
    /\ pc[t] = "idle" /\ ret[t] = NoRet
    /\ top' = [top EXCEPT ![t] = [authors |-> authors]]
    /\ ret' = [ret EXCEPT ![t] = Returned("_highlight_author_name",
                                          _highlight_author_name(authors))]
    /\ UNCHANGED <<env, dbVars, used, pc, op, ctx, conn, tx, loc, pre, calls>>

NextHighlight == \E t \in Threads, authors \in AuthorLists : CallHighlight(t, authors)

SpecHighlight == InitHighlight /\ [][NextHighlight]_vars

\* s has the text m at position k
HasAt(s, m, k) == k >= 1 /\ k + Len(m) - 1 <= Len(s) /\ SubSeq(s, k, k + Len(m) - 1) = m

\* s without the emphasis markers
RECURSIVE Unmark(_)
Unmark(s) ==
    IF Len(s) = 0 THEN <<>>
    ELSE IF HasAt(s, StrongOpen, 1) THEN Unmark(SubSeq(s, Len(StrongOpen) + 1, Len(s)))
    ELSE IF HasAt(s, StrongClose, 1) THEN Unmark(SubSeq(s, Len(StrongClose) + 1, Len(s)))
    ELSE <<s[1]>> \o Unmark(Tail(s))

\* the places of s that have the text m
Places(s, m) == {k \in 1..Len(s) : HasAt(s, m, k)}

\* the forms of the owner's name
OwnerNames == {PatADixit, PatAbhishekDixit, PatADotDixit}

\* s has the owner's name at k, as a name of its own (between word
\* boundaries), in any case
NameAt(s, k) == \E name \in OwnerNames : MatchAt(name, s, k)

NameLen(s, k) == Len(CHOOSE name \in OwnerNames : MatchAt(name, s, k))

\* 'A Dixit, J Smith' and '<strong>A Dixit</strong>, J Smith'
ExampleIn == PatADixit \o <<44, 32, 74, 32, 83, 109, 105, 116, 104>>
ExampleOut == StrongOpen \o PatADixit \o StrongClose
              \o <<44, 32, 74, 32, 83, 109, 105, 116, 104>>

\* C25: _highlight_author_name puts the emphasis marker around every
\* occurrence of the owner's name ('A Dixit', 'Abhishek Dixit', 'A. Dixit'
\* as a name of its own, in any case), once, and changes nothing else: the
\* output without its markers is the input; it has one opening and one
\* closing marker per occurrence, right before and right after the name as
\* it was written; an input without an occurrence comes back as it is, and
\* 'A Dixit, J Smith' gives '<strong>A Dixit</strong>, J Smith'.
C25_HighlightOwner ==
    \A t \in Threads :
        ret[t].of = "_highlight_author_name" =>
            LET in == top[t].authors
                out == ret[t].val
                occ == {k \in 1..Len(in) : NameAt(in, k)}
                shift == Len(StrongOpen) + Len(StrongClose)
            IN /\ Unmark(out) = in
               /\ Cardinality(Places(out, StrongOpen)) = Cardinality(occ)
               /\ Cardinality(Places(out, StrongClose)) = Cardinality(occ)
               /\ \A k \in occ :
                     LET before == Cardinality({j \in occ : j < k})
                         at == k + shift * before
                     IN /\ HasAt(out, StrongOpen, at)
                        /\ HasAt(out, SubSeq(in, k, k + NameLen(in, k) - 1),
                                 at + Len(StrongOpen))
                        /\ HasAt(out, StrongClose, at + Len(StrongOpen) + NameLen(in, k))
               /\ occ = {} => out = in
               /\ in = ExampleIn => out = ExampleOut

\* 'A Dixit, J Smith' has been given and '<strong>A Dixit</strong>, J Smith'
\* has come back
C25_Witness ==
    \E t \in Threads :
        /\ top[t] = [authors |-> ExampleIn]
        /\ ret[t] = Returned("_highlight_author_name", ExampleOut)

----------------------------------------------------------------------------
(* The batches of bulk_insert_publications, over SpecBulk.                *)

RECURSIVE Sum(_)
Sum(ns) == IF Len(ns) = 0 THEN 0 ELSE Head(ns) + Sum(Tail(ns))

\* C26: bulk replace inserts the list in batches that cut it up in order.
\* No batch is inserted before the DELETE is done, and nothing is committed
\* while batches are inserted; every batch has 1 to batch_size (100)
\* records and every batch but the last one of the list has exactly 100;
\* the rows inserted so far are the first records of the list, in order;
\* and at the commit, which is the one step that changes the committed
\* table, ceil(n / 100) batches have been inserted for the n records.
C26_BatchesPartition ==
    \A t \in Threads :
        op[t] = "bulk_insert_publications" =>
            LET sizes == loc[t].sizes
                n == Len(loc[t].publications)
            IN /\ pc[t] \in {"getconn", "delete", "delete_wait"} =>
                     sizes = <<>> /\ tx[t].pubIns = <<>>
               /\ pc[t] \in {"getconn", "delete", "delete_wait", "batch", "except"} =>
                     publications = pre[t].publications
               /\ Len(sizes) <= Ceil(n, batch_size)
               /\ \A k \in 1..Len(sizes) :
                     /\ sizes[k] \in 1..batch_size
                     /\ k < Ceil(n, batch_size) => sizes[k] = batch_size
               /\ pc[t] = "batch" =>
                     /\ Len(tx[t].pubIns) = Sum(sizes)
                     /\ Records(tx[t].pubIns) = SubSeq(loc[t].values, 1, Sum(sizes))
                     /\ loc[t].values = Values(loc[t].publications)
               /\ loc[t].out = Returned("bulk_insert_publications", TRUE) =>
                     /\ Len(sizes) = Ceil(n, batch_size)
                     /\ Sum(sizes) = n
                     /\ Len(publications) = n

\* 201 records have been committed in batches of 100, 100 and 1
C26_Witness ==
    \E t \in Threads :
        /\ op[t] = "bulk_insert_publications" /\ pc[t] = "finally"
        /\ loc[t].out = Returned("bulk_insert_publications", TRUE)
        /\ loc[t].sizes = <<batch_size, batch_size, 1>>
        /\ Len(publications) = 2 * batch_size + 1

----------------------------------------------------------------------------
(* The fetcher's result and what a sync run makes of it, over Spec.       *)

\* the records of the year groups, one after another
RECURSIVE GroupedPubs(_)
GroupedPubs(groups) ==
    IF Len(groups) = 0 THEN <<>> ELSE Head(groups).pubs \o GroupedPubs(Tail(groups))

\* the record that a detail fetch of item number j gives
RecordOf(j) == ProcessedPub(env.scholar.publications[j], j - 1)

EmptyResult(t) ==
    /\ InSync(t) \/ SyncEnded(t)
    /\ top[t].scholar_data # NULL
    /\ top[t].scholar_data[1].total_publications = 0

\* C28: a result without records is a result.  When the author calls
\* succeed and no detail fetch does (or the author has no publication),
\* the fetcher returns a result with no year group and a total of 0, not
\* None; the run goes on with it: it calls bulk replace with the empty
\* list, which when it returns True has left the publications table empty,
\* then the profile upsert with total_publications 0, and a run that
\* reports success reports 0 publications.
C28_EmptyResultEmptiesTable ==
    \A t \in Threads :
        /\ (FetchReturned(t) /\ top[t].scholar_data # NULL
             /\ top[t].skipped = 1..Len(env.scholar.publications)) =>
              /\ top[t].scholar_data[1].publications_by_year = <<>>
              /\ top[t].scholar_data[1].total_publications = 0
        /\ EmptyResult(t) =>
              /\ top[t].scholar_data[1].publications_by_year = <<>>
              /\ ~FetchReturned(t) =>
                    /\ top[t].all_publications = <<>>
                    /\ top[t].issued # <<>>
                    /\ top[t].issued[1] = [name |-> "bulk_insert_publications",
                                           arg |-> Some(<<>>)]
              /\ top[t].bulk_result = Returned("bulk_insert_publications", TRUE) =>
                    /\ publications = <<>>
                    /\ Len(top[t].issued) = 2
                    /\ top[t].issued[2].arg[1].total_publications = 0
              /\ top[t].profile_result = Returned("update_profile", TRUE) =>
                    /\ Len(scholar_profile) = 1
                    /\ scholar_profile[1].total_publications = 0
              /\ (SyncEnded(t) /\ ReportsSuccess(ret[t])) =>
                    /\ publications = <<>>
                    /\ ret[t].of = "sync_scholar_data" => ret[t].val.total_publications = 0

\* every detail fetch of an author with publications raised; the run has
\* emptied a table that had records, stored a total of 0 and reported
\* success
C28_Witness ==
    \E t \in Threads :
        /\ SyncEnded(t) /\ EmptyResult(t)
        /\ Len(env.scholar.publications) > 0
        /\ Len(pre[t].publications) > 0
        /\ publications = <<>>
        /\ ReportsSuccess(ret[t])
        /\ top[t].profile_result = Returned("update_profile", TRUE)
        /\ scholar_profile[1].total_publications = 0

\* the year that the orchestrator gives a record of the group of year y
FlatYear(y) == IF isdigit(y) THEN Some(int(y)) ELSE NULL

\* the run of t has a result and has flattened it
Flattened(t) ==
    /\ InSync(t) \/ SyncEnded(t)
    /\ top[t].scholar_data # NULL
    /\ ~FetchReturned(t)

\* C29: grouping and flattening lose nothing and duplicate nothing.  Every
\* record of _process_all_publications is in one year group, once, and in
\* the group of its own year, and the groups hold nothing else; the
\* flattened list has every record of the groups once, with its year made
\* an integer or None and nothing else changed; and when the run reports
\* success after a profile upsert that returned True, the rows of
\* publications, the stored total_publications, the result's total and the
\* total that the route reports are all the number of records that the
\* fetch gave.
C29_NothingLostOrDuplicated ==
    \A t \in Threads :
        /\ (FetchReturned(t) /\ top[t].scholar_data # NULL) =>
              LET groups == top[t].scholar_data[1].publications_by_year
                  out == top[t].processed_pubs
              IN /\ \A k \in 1..Len(out) :
                        Cardinality({gj \in {<<g, j>> : g \in 1..Len(groups), j \in 1..MaxPubs + 1} :
                                        /\ gj[2] <= Len(groups[gj[1]].pubs)
                                        /\ groups[gj[1]].pubs[gj[2]] = out[k]}) = 1
                 /\ Len(GroupedPubs(groups)) = Len(out)
                 /\ \A g \in 1..Len(groups) :
                        /\ groups[g].pubs # <<>>
                        /\ \A j \in 1..Len(groups[g].pubs) :
                              groups[g].pubs[j].year = groups[g].year
                        /\ \A h \in 1..Len(groups) : h # g => groups[h].year # groups[g].year
                 /\ top[t].scholar_data[1].total_publications = Len(out)
        /\ Flattened(t) =>
              LET recs == GroupedPubs(top[t].scholar_data[1].publications_by_year)
                  all == top[t].all_publications
              IN /\ Len(all) = Len(recs)
                 /\ \A k \in 1..Len(recs) :
                        Cardinality({j \in 1..Len(all) :
                                        all[j] = [recs[k] EXCEPT !.year = FlatYear(recs[k].year)]})
                          = 1
                 /\ top[t].scholar_data[1].total_publications = Len(recs)
                 /\ (/\ SyncEnded(t) /\ ReportsSuccess(ret[t])
                     /\ top[t].profile_result = Returned("update_profile", TRUE)) =>
                        /\ Len(publications) = Len(recs)
                        /\ Len(scholar_profile) = 1
                        /\ scholar_profile[1].total_publications = Len(recs)
                        /\ ret[t].of = "sync_scholar_data" =>
                              ret[t].val.total_publications = Len(recs)

\* the route has stored three records of two years and a profile that
\* says three, and reports three
C29_Witness ==
    \E t \in Threads :
        /\ SyncEnded(t) /\ Flattened(t)
        /\ ret[t].of = "sync_scholar_data" /\ ReportsSuccess(ret[t])
        /\ top[t].profile_result = Returned("update_profile", TRUE)
        /\ Len(top[t].scholar_data[1].publications_by_year) = 2
        /\ Len(publications) = 3
        /\ scholar_profile[1].total_publications = 3
        /\ ret[t].val.total_publications = 3

\* C30: the year sort is stable.  In every year group of
\* publications_by_year the records are in ascending pub_number, and in
\* the orchestrator's flattened list two records of the same year are in
\* ascending pub_number.
C30_StableYearSort ==
    \A t \in Threads :
        Flattened(t) =>
            LET groups == top[t].scholar_data[1].publications_by_year
                all == top[t].all_publications
            IN /\ \A g \in 1..Len(groups) :
                      \A j, k \in 1..Len(groups[g].pubs) :
                          j < k => groups[g].pubs[j].pub_number < groups[g].pubs[k].pub_number
               /\ \A j, k \in 1..Len(all) :
                      (j < k /\ all[j].year = all[k].year) =>
                          all[j].pub_number < all[k].pub_number

----------------------------------------------------------------------------
(* The route GET /api/search of app.py (function search_publications; the *)
(* model calls it api_search, the gateway operation has the name).  The   *)
(* request's parameters are text or missing (NULL).                       *)

\* request.args.get(name, default) handed to int(): the default where the
\* parameter is missing, NULL where int raises ValueError
IntArg(arg, default) == IF arg = NULL THEN Some(default) ELSE ParseInt(arg[1])

ApiSearchTop(q, page, per_page) ==
    [q |-> q, page |-> page, per_page |-> per_page, queried |-> 0]

\* return jsonify(...), status: the route is left
Respond(t, status, result) ==
    /\ ret' = [ret EXCEPT ![t] = Returned(ctx[t], [status |-> status,
                                                    result |-> result])]
    /\ pc' = [pc EXCEPT ![t] = "idle"]
    /\ ctx' = [ctx EXCEPT ![t] = "none"]

\* a client sends GET /api/search with these parameters
CallApiSearch(t, q, page, per_page) ==
    /\ pc[t] = "idle"
    /\ ctx' = [ctx EXCEPT ![t] = "api_search"]
    /\ pc' = [pc EXCEPT ![t] = "start"]
    /\ top' = [top EXCEPT ![t] = ApiSearchTop(q, page, per_page)]
    /\ ret' = [ret EXCEPT ![t] = NoRet]
    /\ UNCHANGED <<env, dbVars, used, op, conn, tx, loc, pre, calls>>

\* lines 158-169: if not db: 500; query = args.get('q', ''); page and
\* per_page go through int(), whose ValueError the route's except turns
\* into 500; then if not query: 400; else db.search_publications(...)
api_search_start(t) ==
    /\ ctx[t] = "api_search" /\ op[t] = "none" /\ pc[t] = "start"
    /\ LET query == IF top[t].q = NULL THEN <<>> ELSE top[t].q[1]
           page == IntArg(top[t].page, 1)
           per_page == IntArg(top[t].per_page, 10)
       IN IF ~env.db \/ page = NULL \/ per_page = NULL
          THEN /\ Respond(t, 500, NULL)
               /\ UNCHANGED <<op, loc, top>>
          ELSE IF query = <<>>
          THEN /\ Respond(t, 400, NULL)
               /\ UNCHANGED <<op, loc, top>>
          ELSE /\ op' = [op EXCEPT ![t] = "search_publications"]
               /\ loc' = [loc EXCEPT ![t] = SearchLoc(query, page[1], per_page[1])]
               /\ top' = [top EXCEPT ![t].queried = @ + 1]
               /\ pc' = [pc EXCEPT ![t] = "getconn"]
               /\ UNCHANGED <<ctx, ret>>
    /\ UNCHANGED <<env, dbVars, used, conn, tx, pre, calls>>

\* lines 169-172: return jsonify(result), or 500 from the route's except
api_search_after(t) ==
    /\ ctx[t] = "api_search" /\ op[t] = "none" /\ pc[t] = "after_search_publications"
    /\ IF ret[t].kind = "return"
       THEN Respond(t, 200, Some(ret[t].val))
       ELSE Respond(t, 500, NULL)
    /\ UNCHANGED <<env, dbVars, used, op, conn, tx, loc, top, pre, calls>>

api_search(t) ==
    \/ api_search_start(t)
    \/ api_search_after(t)

----------------------------------------------------------------------------
(* SpecSearch: one client sends requests to GET /api/search, with and     *)
(* without q, page and per_page, to a process whose database came up or   *)
(* did not; the statements of the search may fail.                        *)

\* q: missing, '', 'a'
QArgs == {NULL, Some(<<>>), Some(<<97>>)}

\* page and per_page: missing, '1', '2', '0', 'x', ''
IntArgs == {NULL, Some(str(1)), Some(str(2)), Some(str(0)), Some(<<120>>), Some(<<>>)}

InitSearch ==
    \E d \in BOOLEAN :
        InitWith(1, [db |-> d, faults |-> {1}, scholar |-> <<>>],
                 TableOf(GenPubs(2, 65), 1), <<>>, 0)

NextSearch ==
    \/ \E t \in Threads, q \in QArgs, page \in IntArgs, per_page \in IntArgs :
          CallApiSearch(t, q, page, per_page)
    \/ \E t \in Threads : api_search_start(t)
    \/ \E t \in Threads : api_search_after(t)
    \/ \E t \in Threads : get_connection(t)
    \/ \E t \in Threads : search_publications_count(t)
    \/ \E t \in Threads : search_publications_select(t)
    \/ \E t \in Threads : Except(t)
    \/ \E t \in Threads : Finally(t)

SpecSearch == InitSearch /\ [][NextSearch]_vars

\* the request has no q, or an empty one
NoQuery(t) == top[t].q = NULL \/ top[t].q = Some(<<>>)

\* C13 (as claimed): with the database available, a request to /api/search
\* without q, or with an empty q, is answered 400 whatever page and per_page
\* are, and no gateway operation is called for it.
C13_MissingQueryIs400 ==
    \A t \in Threads :
        /\ (ctx[t] = "api_search" /\ NoQuery(t)) =>
              op[t] = "none" /\ top[t].queried = 0 /\ used = 0
        /\ (ret[t].of = "api_search" /\ NoQuery(t) /\ env.db) =>
              ret[t].val.status = 400 /\ top[t].queried = 0

----------------------------------------------------------------------------
(* The other routes of app.py: / (home), /api/publications (function      *)
(* get_publications, here api_publications), /api/test-db (test_database, *)
(* here api_test_db, whose statements on the connection are the operation *)
(* test_db) and /api/years (get_years, here api_years).  A request counts *)
(* against the budget calls.                                              *)

\* a client sends a request to the route, with these parameters
CallApi(t, route, args) ==
    /\ pc[t] = "idle" /\ calls > 0
    /\ calls' = calls - 1
    /\ ctx' = [ctx EXCEPT ![t] = route]
    /\ pc' = [pc EXCEPT ![t] = "start"]
    /\ top' = [top EXCEPT ![t] = args]
    /\ ret' = [ret EXCEPT ![t] = NoRet]
    /\ UNCHANGED <<env, dbVars, used, op, conn, tx, loc, pre>>

\* return send_from_directory('../frontend', 'publications.html'): the page,
\* or 404 where the file is not there; db is not looked at
home(t) ==
    /\ ctx[t] = "home" /\ op[t] = "none" /\ pc[t] = "start"
    /\ \E status \in {200, 404} : Respond(t, status, NULL)
    /\ UNCHANGED <<env, dbVars, used, op, conn, tx, loc, top, pre, calls>>

ApiPublicationsTop(page, per_page, year) ==
    [page |-> page, per_page |-> per_page, year |-> year, queried |-> 0,
     result |-> NULL]

\* lines 65-83: if not db: 500; page and per_page go through int();
\* year_filter = args.get('year', 'all'); db.get_publications(...)
api_publications_start(t) ==
    /\ ctx[t] = "api_publications" /\ op[t] = "none" /\ pc[t] = "start"
    /\ LET page == IntArg(top[t].page, 1)
           per_page == IntArg(top[t].per_page, 5)
           year_filter == IF top[t].year = NULL THEN Some(<<97, 108, 108>>) ELSE top[t].year
       IN IF ~env.db \/ page = NULL \/ per_page = NULL
          THEN /\ Respond(t, 500, NULL)
               /\ UNCHANGED <<op, loc, top>>
          ELSE /\ op' = [op EXCEPT ![t] = "get_publications"]
               /\ loc' = [loc EXCEPT ![t] = PageLoc(page[1], per_page[1], year_filter)]
               /\ top' = [top EXCEPT ![t].queried = @ + 1]
               /\ pc' = [pc EXCEPT ![t] = "getconn"]
               /\ UNCHANGED <<ctx, ret>>
    /\ UNCHANGED <<env, dbVars, used, conn, tx, pre, calls>>

\* lines 83-86: result = db.get_publications(...); profile = db.get_profile();
\* an exception out of the first call goes to the route's except (500)
api_publications_after_pubs(t) ==
    /\ ctx[t] = "api_publications" /\ op[t] = "none"
    /\ pc[t] = "after_get_publications"
    /\ IF ret[t].kind = "return"
       THEN /\ op' = [op EXCEPT ![t] = "get_profile"]
            /\ loc' = [loc EXCEPT ![t] = [out |-> NoRet]]
            /\ top' = [top EXCEPT ![t].queried = @ + 1, ![t].result = Some(ret[t].val)]
            /\ pc' = [pc EXCEPT ![t] = "getconn"]
            /\ UNCHANGED <<ctx, ret>>
       ELSE /\ Respond(t, 500, NULL)
            /\ UNCHANGED <<op, loc, top>>
    /\ UNCHANGED <<env, dbVars, used, conn, tx, pre, calls>>

\* lines 91-105: the page is answered, with the profile on page 1 only; an
\* exception out of db.get_profile() goes to the route's except (500)
api_publications_after_profile(t) ==
    /\ ctx[t] = "api_publications" /\ op[t] = "none" /\ pc[t] = "after_get_profile"
    /\ IF ret[t].kind = "return"
       THEN Respond(t, 200,
                    Some([profile |-> IF IntArg(top[t].page, 1) = Some(1)
                                      THEN Some(ret[t].val) ELSE NULL,
                          publications |-> top[t].result[1].publications,
                          pagination |-> top[t].result[1].pagination]))
       ELSE Respond(t, 500, NULL)
    /\ UNCHANGED <<env, dbVars, used, op, conn, tx, loc, top, pre, calls>>

api_publications(t) ==
    \/ api_publications_start(t)
    \/ api_publications_after_pubs(t)
    \/ api_publications_after_profile(t)

\* lines 110-119: if not db: 500; conn = db.get_connection()
api_test_db_start(t) ==
    /\ ctx[t] = "api_test_db" /\ op[t] = "none" /\ pc[t] = "start"
    /\ IF ~env.db
       THEN /\ Respond(t, 500, NULL)
            /\ UNCHANGED <<op, loc, top>>
       ELSE /\ op' = [op EXCEPT ![t] = "test_db"]
            /\ loc' = [loc EXCEPT ![t] = [total |-> 0, out |-> NoRet]]
            /\ top' = [top EXCEPT ![t].queried = @ + 1]
            /\ pc' = [pc EXCEPT ![t] = "getconn"]
            /\ UNCHANGED <<ctx, ret>>
    /\ UNCHANGED <<env, dbVars, used, conn, tx, pre, calls>>

\* cur.execute("SELECT COUNT(*) as total FROM publications")
test_db_count(t) ==
    /\ op[t] = "test_db" /\ pc[t] = "count"
    /\ \/ /\ loc' = [loc EXCEPT ![t].total = Len(publications)]
          /\ pc' = [pc EXCEPT ![t] = "version"]
       \/ /\ t \in env.faults
          /\ pc' = [pc EXCEPT ![t] = "except"]
          /\ UNCHANGED loc
    /\ UNCHANGED <<env, dbVars, used, op, ctx, conn, tx, top, ret, pre, calls>>

\* cur.execute("SELECT version() as db_version"); the answer is built
test_db_version(t) ==
    /\ op[t] = "test_db" /\ pc[t] = "version"
    /\ \/ /\ loc' = [loc EXCEPT ![t].out =
                        Returned(op[t], [total_publications |-> loc[t].total])]
          /\ pc' = [pc EXCEPT ![t] = "finally"]
       \/ /\ t \in env.faults
          /\ pc' = [pc EXCEPT ![t] = "except"]
          /\ UNCHANGED loc
    /\ UNCHANGED <<env, dbVars, used, op, ctx, conn, tx, top, ret, pre, calls>>

\* lines 128-141: the answer, or 500 from the route's except
api_test_db_after(t) ==
    /\ ctx[t] = "api_test_db" /\ op[t] = "none" /\ pc[t] = "after_test_db"
    /\ IF ret[t].kind = "return"
       THEN Respond(t, 200, Some(ret[t].val))
       ELSE Respond(t, 500, NULL)
    /\ UNCHANGED <<env, dbVars, used, op, conn, tx, loc, top, pre, calls>>

api_test_db(t) ==
    \/ api_test_db_start(t)
    \/ test_db_count(t)
    \/ test_db_version(t)
    \/ api_test_db_after(t)

\* api_years_start without the test of db
api_years_start_unguarded(t) ==
    /\ ctx[t] = "api_years" /\ op[t] = "none" /\ pc[t] = "start"
    /\ op' = [op EXCEPT ![t] = "get_years_with_counts"]
    /\ loc' = [loc EXCEPT ![t] = [out |-> NoRet]]
    /\ top' = [top EXCEPT ![t].queried = @ + 1]
    /\ pc' = [pc EXCEPT ![t] = "getconn"]
    /\ UNCHANGED <<env, dbVars, used, ctx, conn, tx, ret, pre, calls>>

\* lines 146-150: if not db: 500; year_counts = db.get_years_with_counts()
api_years_start(t) ==
    /\ ctx[t] = "api_years" /\ op[t] = "none" /\ pc[t] = "start"
    /\ IF ~env.db
       THEN /\ Respond(t, 500, NULL)
            /\ UNCHANGED <<op, loc, top>>
       ELSE /\ op' = [op EXCEPT ![t] = "get_years_with_counts"]
            /\ loc' = [loc EXCEPT ![t] = [out |-> NoRet]]
            /\ top' = [top EXCEPT ![t].queried = @ + 1]
            /\ pc' = [pc EXCEPT ![t] = "getconn"]
            /\ UNCHANGED <<ctx, ret>>
    /\ UNCHANGED <<env, dbVars, used, conn, tx, pre, calls>>

\* lines 151-153: return jsonify(year_counts), or 500 from the route's except
api_years_after(t) ==
    /\ ctx[t] = "api_years" /\ op[t] = "none" /\ pc[t] = "after_get_years_with_counts"
    /\ IF ret[t].kind = "return"
       THEN Respond(t, 200, Some(ret[t].val))
       ELSE Respond(t, 500, NULL)
    /\ UNCHANGED <<env, dbVars, used, op, conn, tx, loc, top, pre, calls>>

api_years(t) ==
    \/ api_years_start(t)
    \/ api_years_after(t)

----------------------------------------------------------------------------
(* SpecServe: a process whose database came up or did not (lines 31-47:   *)
(* db is assigned once, at import) serves Requests requests, one after    *)
(* another, on its routes; every external call and every statement on the *)
(* database may fail.                                                      *)

\* the parameters of a request: missing or '2'
ServeArgs == {NULL, Some(str(2))}

InitServe ==
    \E d \in BOOLEAN :
        InitWith(1, [db |-> d, faults |-> {1}, scholar |-> Author(GenItems(1))],
                 TableOf(GenPubs(2, 65), 1), <<OldProfile>>, Requests)

NextServe ==
    \/ \E t \in Threads : CallApi(t, "home", [queried |-> 0])
    \/ \E t \in Threads, page \in ServeArgs, year \in {NULL, Some(str(2021))} :
          CallApi(t, "api_publications", ApiPublicationsTop(page, NULL, year))
    \/ \E t \in Threads : CallApi(t, "api_test_db", [queried |-> 0])
    \/ \E t \in Threads : CallApi(t, "api_years", [queried |-> 0])
    \/ \E t \in Threads, q \in {NULL, Some(<<97>>)} :
          CallApi(t, "api_search", ApiSearchTop(q, NULL, NULL))
    \/ \E t \in Threads : CallSync(t, "endpoint")
    \/ \E t \in Threads : home(t)
    \/ \E t \in Threads : api_publications_start(t)
    \/ \E t \in Threads : api_publications_after_pubs(t)
    \/ \E t \in Threads : api_publications_after_profile(t)
    \/ \E t \in Threads : api_test_db_start(t)
    \/ \E t \in Threads : test_db_count(t)
    \/ \E t \in Threads : test_db_version(t)
    \/ \E t \in Threads : api_test_db_after(t)
    \/ \E t \in Threads : api_years_start(t)
    \/ \E t \in Threads : api_years_after(t)
    \/ \E t \in Threads : api_search_start(t)
    \/ \E t \in Threads : api_search_after(t)
    \/ \E t \in Threads : sync_start(t)
    \/ \E t \in Threads : fetch_loop(t)
    \/ \E t \in Threads : fetch_search(t)
    \/ \E t \in Threads : fetch_fill(t)
    \/ \E t \in Threads : fetch_item(t)
    \/ \E t \in Threads : fetch_format(t)
    \/ \E t \in Threads : fetch_except(t)
    \/ \E t \in Threads : sync_check(t)
    \/ \E t \in Threads : sync_after_bulk(t)
    \/ \E t \in Threads : sync_after_profile(t)
    \/ \E t \in Threads : get_connection(t)
    \/ \E t \in Threads : get_publications_count(t)
    \/ \E t \in Threads : get_publications_select(t)
    \/ \E t \in Threads : get_profile(t)
    \/ \E t \in Threads : get_years_with_counts(t)
    \/ \E t \in Threads : search_publications_count(t)
    \/ \E t \in Threads : search_publications_select(t)
    \/ \E t \in Threads : bulk_delete(t)
    \/ \E t \in Threads : bulk_delete_done(t)
    \/ \E t \in Threads : bulk_batch(t)
    \/ \E t \in Threads : bulk_commit(t)
    \/ \E t \in Threads : profile_select(t)
    \/ \E t \in Threads : profile_write(t)
    \/ \E t \in Threads : profile_commit(t)
    \/ \E t \in Threads : Except(t)
    \/ \E t \in Threads : Finally(t)

SpecServe == InitServe /\ [][NextServe]_vars

\* the routes that need the database, by the name their answers carry
DataRoutes == {"api_publications", "api_test_db", "api_years", "api_search",
               "sync_scholar_data"}

\* t is serving a request to a route that needs the database, or has
\* answered one
ServingData(t) == ctx[t] \in (DataRoutes \ {"sync_scholar_data"}) \cup {"endpoint"}

\* C22: in a process whose database did not come up, every request to
\* /api/publications, /api/test-db, /api/years, /api/search and
\* /api/admin/sync-scholar is answered 500 with the error body, the first
\* request and every later one; while it is served no gateway operation is
\* called, no connection is taken, the tables stay as they were and the
\* fetcher starts no attempt; the process goes on answering.
C22_NoDatabaseAnswers500 ==
    ~env.db =>
        \A t \in Threads :
            /\ op[t] = "none" /\ ~conn[t] /\ used = 0 /\ tx[t] = NoTx
            /\ Snapshot = pre[t]
            /\ ServingData(t) => pc[t] = "start"
            /\ ctx[t] = "endpoint" => top[t].started = 0 /\ top[t].scholar_data = NULL
            /\ (ServingData(t) /\ ctx[t] # "endpoint") => top[t].queried = 0
            /\ ret[t].of \in DataRoutes =>
                  /\ ret[t].kind = "return"
                  /\ ret[t].val.status = 500
                  /\ ret[t].of = "sync_scholar_data" =>
                        ret[t].val.total_publications = 0 /\ top[t].started = 0
                  /\ ret[t].of # "sync_scholar_data" =>
                        ret[t].val.result = NULL /\ top[t].queried = 0

\* without a database, the last request of the budget has been answered 500
\* by a route that needs the database
C22_Witness ==
    \E t \in Threads :
        /\ ~env.db
        /\ calls = 0 /\ Requests >= 2
        /\ pc[t] = "idle"
        /\ ret[t].of \in DataRoutes
        /\ ret[t].val.status = 500

====
